---- MODULE Spec2Model ----
(***************************************************************************)
(* A model of the trivia client (App.tsx, GameLobby.tsx, GamePlay.tsx):    *)
(* one participant's browser tab, its React component state, the timers    *)
(* its handlers leave pending, the shared localStorage of the device and   *)
(* the calls it makes to the ledger.                                       *)
(*                                                                         *)
(* React state is modelled at the granularity of one handler run followed  *)
(* by the render and the effects that render triggers: a handler that is   *)
(* invoked reads the values of the latest render, while a callback that a  *)
(* handler left pending (setTimeout, the continuation of an await) keeps   *)
(* the values it captured when the handler ran.                            *)
(***************************************************************************)
EXTENDS Integers, Sequences, FiniteSets, TLC

(***************************************************************************)
(* Bounds of the model.                                                    *)
(***************************************************************************)
\* longest question list a game is played with
MaxQuestions == 2
\* number of answer options of a question
NumOptions == 2
\* seconds on the per-question countdown (15..30 in the data, scaled)
TimeLimit == 1
\* longest list of answer records followed
MaxAnswers == 4
\* most callbacks of GamePlay pending at one time
MaxPending == 2
\* largest elapsed time (Date.now() - questionStartTime) distinguished
MaxElapsed == 1
\* how often GamePlay is mounted for one session
MaxMounts == 2
\* how often a mounted GamePlay goes back from review to a question
MaxRevisits == 1
\* the room codes a participant may type
NumCodes == 2
\* the wallet addresses that take part
NumAddresses == 4

(***************************************************************************)
(* Program constants.                                                      *)
(***************************************************************************)
\* useState<number | null>(null): no option selected
null == -2
\* selectedAnswer of a timeout record
TIMEOUT == -1
\* points of a correct answer per difficulty level
BASE_POINTS == 100
\* the retryCount beyond which quickPoll gives up
MAX_RETRY == 8

VARIABLES
    gameState,      \* App: 'home' | 'waiting' | 'playing' | 'ended'
    gameSession,    \* App: the session record, or NoSession
    isConnected,    \* wagmi useAccount().isConnected
    localStorage,   \* the device's localStorage keys of the room
    mounted,        \* a GamePlay instance is rendered
    gp,             \* the state of the rendered GamePlay instance
    expired,        \* Date.now() has passed gameStartTime + totalGameTime
    timers,         \* callbacks left pending by handlers
    scoreCalls,     \* submitFinalScore calls issued for the session
    mounts,         \* number of GamePlay mounts so far
    lobby,          \* the state of the GameLobby component
    channels,       \* the channels on which a start signal is under way
    host,           \* the host's start: confirmed on chain, list published
    quickPoll,      \* retryCount of the lobby's polling interval, -1: none
    join,           \* the state of the JoinGame component
    bestEffort,     \* the push socket and the BroadcastChannel constructor
    hostGame,       \* the state of the HostGame component
    results         \* the winner App shows, and the winner on the ledger

vars == <<gameState, gameSession, isConnected, localStorage, mounted, gp,
          expired, timers, scoreCalls, mounts, lobby, channels, host,
          quickPoll, join, bestEffort, hostGame, results>>

\* the lobby, the start signal and the join screen
lobbyVars == <<lobby, channels, host, quickPoll, join>>

\* the best-effort channels: the socket of socketService is connected, the
\* events the backend has received from it, and whether the browser lets a
\* BroadcastChannel be constructed
BestEffortState == [connected |-> TRUE, emitted |-> {}, BroadcastChannel |-> TRUE]

\* this.socket?.emit(event, ...): nothing is thrown without a connection
Emit(event) ==
    bestEffort' = IF bestEffort.connected
                  THEN [bestEffort EXCEPT !.emitted = @ \cup {event}]
                  ELSE bestEffort

(***************************************************************************)
(* Questions (data/questions.ts).                                          *)
(***************************************************************************)
\* the question pool: one question per difficulty level
Pool ==
    << [id |-> 1, correctAnswer |-> 0, difficulty |-> 1, timeLimit |-> TimeLimit],
       [id |-> 2, correctAnswer |-> 1, difficulty |-> 2, timeLimit |-> TimeLimit],
       [id |-> 3, correctAnswer |-> 0, difficulty |-> 0, timeLimit |-> TimeLimit] >>

Range(f) == { f[i] : i \in DOMAIN f }

\* the lists getRandomQuestions(count) can return: count distinct questions
\* of the pool in any order
RandomQuestions(count) ==
    LET n == IF count < Len(Pool) THEN count ELSE Len(Pool)
    IN  { s \in [1..n -> Range(Pool)] :
            \A i, j \in 1..n : i # j => s[i] # s[j] }

QuestionSets == UNION { RandomQuestions(n) : n \in 1..MaxQuestions }

\* q.timeLimit || 30, in the scaled unit
LimitOf(qs, index) ==
    IF qs[index + 1].timeLimit = 0 THEN TimeLimit ELSE qs[index + 1].timeLimit

(***************************************************************************)
(* Answer records and scoring (GamePlay.tsx).                              *)
(***************************************************************************)
\* ScoreAnswer with the speed bonus the interface text promises: an answer
\* given at once earns more
ScoreAnswerSpeedBonus(question, index, selected, elapsed) ==
    LET isCorrect == selected = question.correctAnswer
    IN  [questionIndex |-> index,
         selectedAnswer |-> selected,
         isCorrect |-> isCorrect,
         pointsEarned |-> IF isCorrect
                          THEN BASE_POINTS * question.difficulty
                               + (IF elapsed = 0 THEN 50 ELSE 0)
                          ELSE 0]

\* the record submitAnswer builds: correctness and points of one answer
\* given after `elapsed`. The timeTaken field of the source's records is
\* left out: the client stores it and never reads it.
ScoreAnswer(question, index, selected, elapsed) ==
    LET isCorrect == selected = question.correctAnswer
    IN  [questionIndex |-> index,
         selectedAnswer |-> selected,
         isCorrect |-> isCorrect,
         pointsEarned |-> IF isCorrect THEN BASE_POINTS * question.difficulty ELSE 0]

\* the record handleTimeUp and the total game timer build
TimeoutRecord(index) ==
    [questionIndex |-> index,
     selectedAnswer |-> TIMEOUT,
     isCorrect |-> FALSE,
     pointsEarned |-> 0]

RECURSIVE SumPoints(_)
SumPoints(answers) ==
    IF answers = << >> THEN 0
    ELSE answers[1].pointsEarned + SumPoints(Tail(answers))

RECURSIVE CountCorrect(_)
CountCorrect(answers) ==
    IF answers = << >> THEN 0
    ELSE (IF answers[1].isCorrect THEN 1 ELSE 0) + CountCorrect(Tail(answers))

\* playerAnswers.findIndex(a => a.questionIndex === index), 0 when absent
RECURSIVE FindIndexFrom(_, _, _)
FindIndexFrom(answers, index, k) ==
    IF k > Len(answers) THEN 0
    ELSE IF answers[k].questionIndex = index THEN k
    ELSE FindIndexFrom(answers, index, k + 1)

FindIndex(answers, index) == FindIndexFrom(answers, index, 1)

HasAnswer(answers, index) == FindIndex(answers, index) # 0

\* setPlayerAnswers(prev => ...) of submitAnswer: update the existing
\* record of the question, or append
UpdateOrAppend(prev, newAnswer) ==
    LET existingIndex == FindIndex(prev, newAnswer.questionIndex)
    IN  IF existingIndex > 0
        THEN [prev EXCEPT ![existingIndex] = newAnswer]
        ELSE Append(prev, newAnswer)

(***************************************************************************)
(* The GamePlay component (GamePlay.tsx).                                  *)
(***************************************************************************)
NoSession == [present |-> FALSE, isHost |-> FALSE, sessionId |-> 0]

\* the useState initial values of JoinGame and the idle transaction hooks;
\* sessionId 0 is the empty string, roomCode 0 the empty input. lookups are
\* the fetches under way, by room code
JoinGameState ==
    [roomCode |-> 0, sessionId |-> 0, enteredRoomCode |-> 0,
     isFetchingSession |-> FALSE, tx |-> "idle", lookups |-> {}]

\* the useState initial values of GameLobby
\* GameLobby after the effects of its mount for the wallet address account:
\* the players list holds the local account; repeated notes that a
\* PlayerJoined log named an address already on the list; tx is the state
\* of the startSession transaction of useWriteContract and
\* useWaitForTransactionReceipt
MountLobby(account, isHost) ==
    [gameStarted |-> FALSE, isStarting |-> FALSE, account |-> account,
     players |-> << [address |-> account, isHost |-> isHost] >>,
     repeated |-> FALSE, tx |-> "idle"]

GameLobbyState == MountLobby(1, FALSE)

\* no winner is shown, the ledger has determined none (0: no address)
NoResults == [winner |-> 0, ledgerWinner |-> 0]

\* the useState initial values of HostGame and its createSession
\* transaction and its receipt, with the session ids the ledger has issued
\* to it and the id under which the registry holds its game (0: none)
HostGameState ==
    [generatedRoomCode |-> 0, questionCount |-> 10, tx |-> "idle",
     receipt |-> << >>, issued |-> {}, registered |-> 0]

\* no record written yet for a question
NoRecord == [questionIndex |-> -1, selectedAnswer |-> null, isCorrect |-> FALSE,
             pointsEarned |-> 0]

\* the useState initial values of GamePlay; latest, reachedReview and
\* revisits are history: the last record written per question, whether the
\* phase has been 'review', and how often it went back to 'playing', since
\* the mount; aged holds the pending callbacks that were already pending
\* when the current period of the countdown began; sinceStart is
\* Date.now() - gameStartTime in ms, which only ClockSpec advances
GamePlayState ==
    [questions |-> << >>,
     currentQuestionIndex |-> 0,
     selectedAnswer |-> null,
     timeLeft |-> 30,
     gamePhase |-> "waiting",
     isSubmitting |-> FALSE,
     playerAnswers |-> << >>,
     hasAutoSubmitted |-> FALSE,
     scoreTx |-> "idle",
     endTx |-> "idle",
     latest |-> << >>,
     reachedReview |-> FALSE,
     revisits |-> 0,
     aged |-> {},
     sinceStart |-> 0]

\* the two mount effects: questions from localStorage (or a generated
\* fallback list), then phase 'playing' on the first question
InitialiseGame(qs) ==
    IF Len(qs) > 0
    THEN [GamePlayState EXCEPT
            !.questions = qs,
            !.gamePhase = "playing",
            !.currentQuestionIndex = 0,
            !.timeLeft = qs[1].timeLimit,
            !.latest = [i \in 1..Len(qs) |-> NoRecord]]
    ELSE [GamePlayState EXCEPT !.questions = qs]

NumQ(g) == Len(g.questions)

\* a pending callback and the values its closure captured
Timer(kind, idx, sel, len) == [kind |-> kind, idx |-> idx, sel |-> sel, len |-> len]

\* callbacks that only set state of the GamePlay instance that made them
GamePlayKinds == {"submitAwait", "submitDoneNext", "submitDoneReview",
                  "timeUpNext", "timeUpReview"}

\* setGamePhase
SetGamePhase(g, phase) ==
    [g EXCEPT !.gamePhase = phase,
              !.reachedReview = g.reachedReview \/ phase = "review"]

\* setPlayerAnswers(prev => [...prev, record])
AppendAnswer(g, record) ==
    [g EXCEPT !.playerAnswers = Append(g.playerAnswers, record),
              !.latest[record.questionIndex + 1] = record]

\* handleTimeUp moving on without recording the timeout
HandleTimeUpUnrecorded(g) ==
    IF g.selectedAnswer = null
    THEN LET nextIndex == g.currentQuestionIndex + 1
         IN  IF nextIndex < NumQ(g)
             THEN [g |-> [g EXCEPT !.currentQuestionIndex = nextIndex],
                   add |-> {Timer("timeUpNext", nextIndex, 0, 0)}]
             ELSE [g |-> g, add |-> {Timer("timeUpReview", 0, 0, 0)}]
    ELSE [g |-> g, add |-> {}]

\* handleTimeUp: the state it sets and the callback it leaves pending
HandleTimeUp(g) ==
    IF g.selectedAnswer = null
    THEN LET recorded == AppendAnswer(g, TimeoutRecord(g.currentQuestionIndex))
             nextIndex == g.currentQuestionIndex + 1
         IN  IF nextIndex < NumQ(g)
             THEN [g |-> [recorded EXCEPT !.currentQuestionIndex = nextIndex],
                   add |-> {Timer("timeUpNext", nextIndex, 0, 0)}]
             ELSE [g |-> recorded,
                   add |-> {Timer("timeUpReview", 0, 0, 0)}]
    ELSE [g |-> g, add |-> {}]

\* the question timer effect, which React runs after a render in which
\* timeLeft, gamePhase or isSubmitting changed: at zero it calls handleTimeUp
\* (above zero it arms the one-second timeout that Tick models)
QuestionTimerEffect(old, new) ==
    IF /\ <<old.timeLeft, old.gamePhase, old.isSubmitting>>
            # <<new.timeLeft, new.gamePhase, new.isSubmitting>>
       /\ new.timeLeft = 0 /\ new.gamePhase = "playing" /\ ~new.isSubmitting
    THEN HandleTimeUp(new)
    ELSE [g |-> new, add |-> {}]

\* a handler of the mounted instance took gp to g, firing the callbacks
\* `fired` and leaving `add` pending. A new value of timeLeft begins a
\* period of the countdown: the callbacks pending then are due (800 ms,
\* 2000 ms) before the period ends.
Commit(g, fired, add) ==
    LET r == QuestionTimerEffect(gp, g)
        pending == { c \in timers \ fired : c.kind \in GamePlayKinds }
    IN  /\ gp' = [r.g EXCEPT !.aged = IF g.timeLeft # gp.timeLeft
                                      THEN pending
                                      ELSE gp.aged \cap pending]
        /\ timers' = (timers \ fired) \cup add \cup r.add
        /\ Len(gp'.playerAnswers) <= MaxAnswers
        /\ Cardinality({ c \in timers' : c.kind \in GamePlayKinds }) <= MaxPending

\* what the handlers of GamePlay leave alone
AppUnchanged ==
    UNCHANGED <<gameState, gameSession, isConnected, localStorage, mounted,
                expired, mounts, lobbyVars, bestEffort, hostGame, results>>

Playing == mounted /\ gp.gamePhase = "playing" /\ NumQ(gp) > 0

InReview == mounted /\ gp.gamePhase = "review"

\* an option button of the current question
SelectAnswer ==
    /\ Playing /\ ~gp.isSubmitting
    /\ \E index \in 0..(NumOptions - 1) :
          Commit([gp EXCEPT !.selectedAnswer = index], {}, {})
    /\ UNCHANGED scoreCalls
    /\ AppUnchanged

\* submitAnswer up to its await: the continuation keeps the question index,
\* the selection, playerAnswers.length and the phase (always 'playing': the
\* Submit Answer button is rendered in that phase only) of this render
SubmitAnswer ==
    /\ Playing
    /\ ~(gp.selectedAnswer = null \/ gp.isSubmitting)
    /\ Commit([gp EXCEPT !.isSubmitting = TRUE], {},
              {Timer("submitAwait", gp.currentQuestionIndex, gp.selectedAnswer,
                     Len(gp.playerAnswers))})
    /\ UNCHANGED scoreCalls
    /\ AppUnchanged

\* submitAnswer after its await, for the captured values c
SubmitAnswerResume(g, c, elapsed) ==
    LET question == g.questions[c.idx + 1]
        newAnswer == ScoreAnswer(question, c.idx, c.sel, elapsed)
        stored == [g EXCEPT !.playerAnswers = UpdateOrAppend(g.playerAnswers, newAnswer),
                            !.latest[c.idx + 1] = newAnswer]
        isReviewing == c.len >= NumQ(g)
        nextIndex == c.idx + 1
    IN  IF isReviewing
        THEN [g |-> stored, add |-> {Timer("submitDoneReview", 0, 0, 0)}]
        ELSE IF nextIndex < NumQ(g)
        THEN [g |-> [stored EXCEPT !.currentQuestionIndex = nextIndex],
              add |-> {Timer("submitDoneNext", nextIndex, 0, 0)}]
        ELSE [g |-> stored, add |-> {Timer("submitDoneReview", 0, 0, 0)}]

\* the progression callbacks going through startNextQuestion, which sets
\* the phase 'playing'
TimerFiresStartNextQuestion(g, c) ==
    CASE c.kind = "submitDoneNext" ->
            [g EXCEPT !.timeLeft = LimitOf(g.questions, c.idx),
                      !.selectedAnswer = null,
                      !.isSubmitting = FALSE,
                      !.gamePhase = "playing"]
      [] c.kind = "submitDoneReview" ->
            SetGamePhase([g EXCEPT !.isSubmitting = FALSE], "review")
      [] c.kind = "timeUpNext" ->
            [g EXCEPT !.timeLeft = LimitOf(g.questions, c.idx),
                      !.selectedAnswer = null,
                      !.gamePhase = "playing"]
      [] c.kind = "timeUpReview" ->
            SetGamePhase(g, "review")

\* the state a pending callback of GamePlay sets when it fires
TimerFires(g, c) ==
    CASE c.kind = "submitDoneNext" ->
            [g EXCEPT !.timeLeft = LimitOf(g.questions, c.idx),
                      !.selectedAnswer = null,
                      !.isSubmitting = FALSE]
      [] c.kind = "submitDoneReview" ->
            SetGamePhase([g EXCEPT !.isSubmitting = FALSE], "review")
      [] c.kind = "timeUpNext" ->
            [g EXCEPT !.timeLeft = LimitOf(g.questions, c.idx),
                      !.selectedAnswer = null]
      [] c.kind = "timeUpReview" ->
            SetGamePhase(g, "review")

\* the 800 ms await of submitAnswer ends
AnswerProcessed ==
    /\ mounted
    /\ \E c \in timers, elapsed \in 0..MaxElapsed :
          /\ c.kind = "submitAwait"
          /\ LET r == SubmitAnswerResume(gp, c, elapsed)
             IN  Commit(r.g, {c}, r.add)
    /\ Emit("answer:submit")
    /\ UNCHANGED <<gameState, gameSession, isConnected, localStorage, mounted,
                   expired, scoreCalls, mounts, lobbyVars, hostGame, results>>

\* a 2000 ms callback of submitAnswer or handleTimeUp fires
DelayedCallback ==
    /\ mounted
    /\ \E c \in timers :
          /\ c.kind \in GamePlayKinds \ {"submitAwait"}
          /\ Commit(TimerFires(gp, c), {c}, {})
    /\ UNCHANGED scoreCalls
    /\ AppUnchanged

\* the timeouts of the question timer effect take the countdown down by one
\* unit. The unit is several seconds (the time limits are 15 to 30 s), so
\* every callback that was pending when the unit began has fired by its end.
Tick ==
    /\ Playing /\ gp.timeLeft > 0 /\ ~gp.isSubmitting
    /\ timers \cap gp.aged = {}
    /\ Commit([gp EXCEPT !.timeLeft = gp.timeLeft - 1], {}, {})
    /\ UNCHANGED scoreCalls
    /\ AppUnchanged

\* Date.now() passes gameStartTime + totalGameTime
DeadlinePasses ==
    /\ mounted /\ NumQ(gp) > 0 /\ ~expired
    /\ expired' = TRUE
    /\ UNCHANGED <<gameState, gameSession, isConnected, localStorage, mounted,
                   gp, timers, scoreCalls, mounts, lobbyVars, bestEffort, hostGame, results>>

\* the question indices without a record, in increasing order
RECURSIVE UnansweredFrom(_, _, _)
UnansweredFrom(answers, index, n) ==
    IF index >= n THEN << >>
    ELSE (IF HasAnswer(answers, index) THEN << >> ELSE <<index>>)
         \o UnansweredFrom(answers, index + 1, n)

RECURSIVE MarkMissed(_, _)
MarkMissed(g, indices) ==
    IF indices = << >> THEN g
    ELSE MarkMissed(AppendAnswer(g, TimeoutRecord(indices[1])), Tail(indices))

\* the total game timer marking the current question only
TotalTimeExpiredCurrentOnly(g) ==
    SetGamePhase(MarkMissed(g, UnansweredFrom(g.playerAnswers, g.currentQuestionIndex,
                                              g.currentQuestionIndex + 1)),
                 "review")

\* the total game timer marking the questions and staying in the phase
TotalTimeExpiredNoReview(g) ==
    MarkMissed(g, UnansweredFrom(g.playerAnswers, 0, NumQ(g)))

\* the body of the total game timer's interval callback once the remaining
\* time is used up
TotalTimeExpired(g) ==
    LET unansweredQuestions == UnansweredFrom(g.playerAnswers, 0, NumQ(g))
    IN  SetGamePhase(MarkMissed(g, unansweredQuestions), "review")

\* the total game timer's interval callback
TotalGameTimer ==
    /\ mounted /\ NumQ(gp) > 0
    /\ expired
    /\ gp.gamePhase # "review" /\ gp.gamePhase # "ended"
    /\ Commit(TotalTimeExpired(gp), {}, {})
    /\ UNCHANGED scoreCalls
    /\ AppUnchanged

\* the arguments of submitFinalScore
Aggregate(answers) ==
    [totalScore |-> SumPoints(answers), correctCount |-> CountCorrect(answers)]

\* submitAllAnswersBatch taking its early return whatever the records
SubmitAllAnswersBatchEarlyReturn(g) == [g |-> g, calls |-> << >>]

\* submitAllAnswersBatch: the writeScore call it makes, if any
SubmitAllAnswersBatch(g) ==
    IF Len(g.playerAnswers) = 0
    THEN [g |-> g, calls |-> << >>]
    ELSE [g |-> [g EXCEPT !.scoreTx = "pending"],
          calls |-> << Aggregate(g.playerAnswers) >>]

\* submitAllAnswersBatch() without setHasAutoSubmitted(true)
SubmitFinalUnflagged ==
    LET r == SubmitAllAnswersBatch(gp)
    IN  /\ Commit(r.g, {}, {})
        /\ scoreCalls' = scoreCalls \o r.calls

\* setHasAutoSubmitted(true); submitAllAnswersBatch()
SubmitFinal ==
    LET r == SubmitAllAnswersBatch([gp EXCEPT !.hasAutoSubmitted = TRUE])
    IN  /\ Commit(r.g, {}, {})
        /\ scoreCalls' = scoreCalls \o r.calls

\* the auto-submit timeout of an effect without cleanup: once armed in
\* review it fires whatever the phase has become
AutoSubmitUncleared ==
    /\ mounted /\ gp.reachedReview
    /\ ~gp.hasAutoSubmitted /\ Len(gp.playerAnswers) > 0
    /\ \A c \in timers : c.kind \notin GamePlayKinds
    /\ SubmitFinal
    /\ AppUnchanged

\* the auto-submit effect's 5 s timeout. The effect re-arms it whenever
\* gamePhase or playerAnswers changes, and a callback of GamePlay (2 s at
\* most) is scheduled before the phase became 'review' or together with a
\* change of playerAnswers: it fires before this timeout does.
AutoSubmit ==
    /\ InReview /\ ~gp.hasAutoSubmitted /\ Len(gp.playerAnswers) > 0
    /\ \A c \in timers : c.kind \notin GamePlayKinds
    /\ SubmitFinal
    /\ AppUnchanged

\* the Submit Now button
SubmitNow ==
    /\ InReview /\ ~gp.hasAutoSubmitted
    /\ SubmitFinal
    /\ AppUnchanged

\* the wallet and the chain settle the submitFinalScore transaction
ScoreSettles ==
    /\ mounted /\ gp.scoreTx = "pending"
    /\ \E outcome \in {"success", "error"} :
          Commit([gp EXCEPT !.scoreTx = outcome], {}, {})
    /\ UNCHANGED scoreCalls
    /\ AppUnchanged

\* a question button of the review grid
RevisitQuestion(g, index) ==
    LET k == FindIndex(g.playerAnswers, index)
        preselect == IF k > 0 /\ g.playerAnswers[k].selectedAnswer # TIMEOUT
                     THEN g.playerAnswers[k].selectedAnswer
                     ELSE null
    IN  [g EXCEPT !.currentQuestionIndex = index,
                  !.gamePhase = "playing",
                  !.timeLeft = LimitOf(g.questions, index),
                  !.isSubmitting = FALSE,
                  !.selectedAnswer = preselect,
                  !.revisits = g.revisits + 1]

ReviewGrid ==
    /\ InReview /\ gp.revisits < MaxRevisits
    /\ \E index \in 0..(NumQ(gp) - 1) :
          Commit(RevisitQuestion(gp, index), {}, {})
    /\ UNCHANGED scoreCalls
    /\ AppUnchanged

\* the Review Questions button: the first question, with the selection of
\* its record whatever it is
ReviewQuestions ==
    /\ InReview /\ ~gp.hasAutoSubmitted /\ NumQ(gp) > 0
    /\ gp.revisits < MaxRevisits
    /\ LET k == FindIndex(gp.playerAnswers, 0)
       IN  Commit([gp EXCEPT !.currentQuestionIndex = 0,
                             !.gamePhase = "playing",
                             !.timeLeft = LimitOf(gp.questions, 0),
                             !.isSubmitting = FALSE,
                             !.selectedAnswer =
                                 IF k > 0 THEN gp.playerAnswers[k].selectedAnswer
                                 ELSE null,
                             !.revisits = gp.revisits + 1],
                  {}, {})
    /\ UNCHANGED scoreCalls
    /\ AppUnchanged

(***************************************************************************)
(* The App component (App.tsx): which screen is rendered.                  *)
(***************************************************************************)
\* the questions GamePlay's mount effect loads: the shared list of
\* localStorage, else a list it generates itself
LoadedQuestions(store) ==
    IF store.questions # << >>
    THEN {store.questions}
    ELSE RandomQuestions(IF store.questionCount > 0 THEN store.questionCount ELSE 10)
         \cap QuestionSets

\* GamePlay is unmounted: its state is dropped and the callbacks that only
\* set that state have no effect any more
Unmount ==
    /\ mounted' = FALSE
    /\ gp' = GamePlayState
    /\ expired' = FALSE
    /\ timers' = { c \in timers : c.kind \notin GamePlayKinds }

\* GamePlay is mounted for the current session
Mount ==
    /\ mounts < MaxMounts
    /\ mounted' = TRUE
    /\ mounts' = mounts + 1
    /\ expired' = FALSE
    /\ \E qs \in LoadedQuestions(localStorage) : gp' = InitialiseGame(qs)

\* removeItem of the room's keys
RemoveKeys(store, keys) ==
    [k \in DOMAIN store |->
        IF k \in keys THEN (IF k = "questions" THEN << >> ELSE
                            IF k = "started" THEN FALSE ELSE 0)
        ELSE store[k]]

\* handleBackToHome (Leave Game / Back)
HandleBackToHome ==
    /\ isConnected /\ gameState \in {"waiting", "playing", "ended"}
    /\ localStorage' = IF gameSession.present
                       THEN RemoveKeys(localStorage, {"questions", "started"})
                       ELSE localStorage
    /\ gameState' = "home"
    /\ gameSession' = NoSession
    /\ Unmount
    /\ lobby' = GameLobbyState
    /\ results' = [results EXCEPT !.winner = 0]
    /\ UNCHANGED <<isConnected, scoreCalls, mounts, channels, host, quickPoll,
                   join, bestEffort, hostGame>>

\* the wallet disconnects: App renders the connect page instead of the
\* current screen; gameState and gameSession stay. The effect on isConnected
\* closes the socket.
Disconnect ==
    /\ isConnected
    /\ isConnected' = FALSE
    /\ Unmount
    /\ bestEffort' = [bestEffort EXCEPT !.connected = FALSE]
    /\ UNCHANGED <<gameState, gameSession, localStorage, scoreCalls, mounts,
                   lobbyVars, hostGame, results>>

\* the wallet reconnects: the screen of gameState is rendered again. The
\* effect on isConnected opens a socket, which is connected once its
\* 'connect' event arrives (SocketConnect).
Reconnect ==
    /\ ~isConnected
    /\ isConnected' = TRUE
    /\ IF gameState = "playing"
       THEN Mount /\ UNCHANGED timers
       ELSE UNCHANGED <<mounted, gp, expired, timers, mounts>>
    /\ UNCHANGED <<gameState, gameSession, localStorage, scoreCalls, lobbyVars,
                   bestEffort, hostGame, results>>

\* the socket delivers 'game:ended': localEndGame in one second. The host
\* emits it from End Session, which its own GamePlay (mounted 2 s after the
\* publication) offers once it has played and its score transaction is
\* confirmed: the start callbacks of the lobby (due within 2 s of the
\* publication) have run by then.
GameEnded ==
    /\ mounted
    /\ quickPoll = -1 /\ \A c \in timers : c.kind # "onStartGame"
    /\ timers' = timers \cup {Timer("localEndGame", 0, 0, 0)}
    /\ UNCHANGED <<gameState, gameSession, isConnected, localStorage, mounted,
                   gp, expired, scoreCalls, mounts, lobbyVars, bestEffort, hostGame, results>>

\* the winner localEndGame passes to onGameEnd: the first entry of the
\* scores, the local total included, sorted by points
WinnerAddress(scores, account, totalScore) ==
    LET currentScores == [a \in DOMAIN scores \cup {account} |->
                             IF a = account THEN totalScore ELSE scores[a]]
    IN  CHOOSE a \in DOMAIN currentScores :
           \A b \in DOMAIN currentScores : currentScores[a] >= currentScores[b]

\* localEndGame, then handleGameEnd through onGameEnd. The scores state
\* never holds an entry of another address than the local account: both
\* setScores calls write [account] only.
LocalEndGameNow ==
    /\ localStorage' = RemoveKeys(localStorage, {"questions", "started", "questionCount"})
    /\ gameState' = "ended"
    /\ mounted' = FALSE
    /\ gp' = GamePlayState
    /\ expired' = FALSE
    /\ timers' = { c \in timers : c.kind \notin GamePlayKinds \cup {"localEndGame"} }
    /\ results' = [results EXCEPT !.winner =
                       WinnerAddress([a \in {} |-> 0], lobby.account,
                                     SumPoints(gp.playerAnswers))]
    /\ UNCHANGED <<gameSession, isConnected, scoreCalls, mounts, lobbyVars,
                   hostGame>>

\* the 1 s timeout of the game:ended handler
LocalEndGame ==
    /\ Timer("localEndGame", 0, 0, 0) \in timers
    /\ LocalEndGameNow
    /\ UNCHANGED bestEffort

(***************************************************************************)
(* The lobby of a participant who is not the host (GameLobby.tsx), and the *)
(* host's start of the session as that participant sees it.                *)
(***************************************************************************)
\* the four ways a start reaches the lobby, as the tag of the callback each
\* one schedules; 5 tags the callback of the polling interval
ChannelNo == [chain |-> 1, broadcast |-> 2, storage |-> 3, custom |-> 4, poll |-> 5]

\* setTimeout(() => onStartGame(), 1500)
StartTimer(ch) == Timer("onStartGame", ChannelNo[ch], 0, 0)

\* GameLobby is rendered for a participant who is not the host
InLobby ==
    /\ isConnected
    /\ gameState = "waiting"
    /\ gameSession.present /\ ~gameSession.isHost

\* handleStartGame where a start in play begins the game anew
HandleStartGameRestart ==
    /\ gameState' = "playing"
    /\ lobby' = GameLobbyState
    /\ IF isConnected /\ gameSession.present
       THEN Mount
       ELSE UNCHANGED <<mounted, gp, expired, mounts>>

\* handleStartGame, and the render that follows: GamePlay is mounted when
\* the screen changes to it; a GamePlay already on screen stays as it is,
\* and without a session no GamePlay comes up
HandleStartGame ==
    /\ gameState' = "playing"
    /\ lobby' = GameLobbyState
    /\ IF gameState # "playing" /\ isConnected /\ gameSession.present
       THEN Mount
       ELSE UNCHANGED <<mounted, gp, expired, mounts>>

\* the host's startSession transaction is confirmed: the contract emits
\* SessionStarted
SessionStarted ==
    /\ ~host.started
    /\ host' = [host EXCEPT !.started = TRUE]
    /\ channels' = channels \cup {"chain"}
    /\ UNCHANGED <<gameState, gameSession, isConnected, localStorage, mounted,
                   gp, expired, timers, scoreCalls, mounts, lobby, quickPoll,
                   join, bestEffort, hostGame, results>>

\* proceedWithGameStart in the host's tab: the list is generated, and on the
\* participant's device it is written to localStorage (which raises the
\* storage event in the other tabs), posted on the BroadcastChannel and
\* dispatched as a custom event
ProceedWithGameStart ==
    /\ host.started /\ host.questions = << >>
    /\ \E qs \in RandomQuestions(IF localStorage.questionCount > 0
                                 THEN localStorage.questionCount ELSE 10)
                 \cap QuestionSets :
       \E sameDevice \in BOOLEAN :
          /\ host' = [host EXCEPT !.questions = qs]
          /\ IF sameDevice
             THEN /\ localStorage' = [localStorage EXCEPT !.questions = qs,
                                                          !.started = TRUE]
                  /\ channels' = channels \cup {"storage", "custom"}
                                  \cup IF bestEffort.BroadcastChannel
                                       THEN {"broadcast"} ELSE {}
             ELSE UNCHANGED <<localStorage, channels>>
    /\ UNCHANGED <<gameState, gameSession, isConnected, mounted, gp, expired,
                   timers, scoreCalls, mounts, lobby, quickPoll,
                   join, bestEffort, hostGame, results>>

\* onLogs of the SessionStarted watcher: the immediate check of the stored
\* list, else the polling interval
OnSessionStarted ==
    /\ InLobby /\ "chain" \in channels
    /\ channels' = channels \ {"chain"}
    /\ lobby' = [lobby EXCEPT !.gameStarted = TRUE]
    /\ IF localStorage.questions # << >>
       THEN timers' = timers \cup {StartTimer("chain")} /\ UNCHANGED quickPoll
       ELSE quickPoll' = 0 /\ UNCHANGED timers
    /\ UNCHANGED <<gameState, gameSession, isConnected, localStorage, mounted,
                   gp, expired, scoreCalls, mounts, host, join, bestEffort, hostGame, results>>

\* quickPoll without the clearInterval of its give-up branch
QuickPollNoGiveUp ==
    /\ quickPoll >= 0
    /\ IF localStorage.questions # << >>
       THEN quickPoll' = -1 /\ timers' = timers \cup {StartTimer("poll")}
       ELSE /\ quickPoll' = IF quickPoll > MAX_RETRY THEN quickPoll ELSE quickPoll + 1
            /\ UNCHANGED timers
    /\ UNCHANGED <<gameState, gameSession, isConnected, localStorage, mounted,
                   gp, expired, scoreCalls, mounts, lobby, channels, host,
                   join, bestEffort, hostGame, results>>

\* one run of the quickPoll interval; no cleanup clears it, so it runs on
\* after the lobby is gone
QuickPoll ==
    /\ quickPoll >= 0
    /\ IF localStorage.questions # << >>
       THEN quickPoll' = -1 /\ timers' = timers \cup {StartTimer("poll")}
       ELSE /\ quickPoll' = IF quickPoll > MAX_RETRY THEN -1 ELSE quickPoll + 1
            /\ UNCHANGED timers
    /\ UNCHANGED <<gameState, gameSession, isConnected, localStorage, mounted,
                   gp, expired, scoreCalls, mounts, lobby, channels, host,
                   join, bestEffort, hostGame, results>>

\* channel.onmessage for GAME_STARTED: the list of the message is stored
OnBroadcastMessage ==
    /\ InLobby /\ "broadcast" \in channels
    /\ channels' = channels \ {"broadcast"}
    /\ IF Len(host.questions) > 0
       THEN /\ localStorage' = [localStorage EXCEPT !.questions = host.questions]
            /\ timers' = timers \cup {StartTimer("broadcast")}
       ELSE UNCHANGED <<localStorage, timers>>
    /\ UNCHANGED <<gameState, gameSession, isConnected, mounted, gp, expired,
                   scoreCalls, mounts, lobby, host, quickPoll,
                   join, bestEffort, hostGame, results>>

\* handleStorageChange for the questions key
HandleStorageChange ==
    /\ InLobby /\ "storage" \in channels
    /\ channels' = channels \ {"storage"}
    /\ IF host.questions # << >>
       THEN timers' = timers \cup {StartTimer("storage")}
       ELSE UNCHANGED timers
    /\ UNCHANGED <<gameState, gameSession, isConnected, localStorage, mounted,
                   gp, expired, scoreCalls, mounts, lobby, host, quickPoll,
                   join, bestEffort, hostGame, results>>

\* handleCustomGameStart: the list of the event is stored
HandleCustomGameStart ==
    /\ InLobby /\ "custom" \in channels
    /\ channels' = channels \ {"custom"}
    /\ localStorage' = [localStorage EXCEPT !.questions = host.questions]
    /\ timers' = timers \cup {StartTimer("custom")}
    /\ UNCHANGED <<gameState, gameSession, isConnected, mounted, gp, expired,
                   scoreCalls, mounts, lobby, host, quickPoll,
                   join, bestEffort, hostGame, results>>

\* a scheduled onStartGame runs; the lobby that scheduled it may be gone
OnStartGame ==
    /\ \E c \in timers :
          /\ c.kind = "onStartGame"
          /\ timers' = timers \ {c}
    /\ HandleStartGame
    /\ UNCHANGED <<gameSession, isConnected, localStorage, scoreCalls,
                   channels, host, quickPoll,
                   join, bestEffort, hostGame, results>>

(***************************************************************************)
(* Spec: one mounted GamePlay, from its mount to the end of the review or  *)
(* to Leave Game.                                                          *)
(***************************************************************************)
\* GamePlay has just been mounted on the shared question list qs, for the
\* host or for another participant
MountedAs(qs, isHost) ==
    /\ gameState = "playing"
    /\ gameSession = [present |-> TRUE, isHost |-> isHost, sessionId |-> 1]
    /\ isConnected = TRUE
    /\ localStorage = [questions |-> qs, started |-> FALSE, questionCount |-> 0]
    /\ gp = InitialiseGame(qs)
    /\ mounted = TRUE
    /\ expired = FALSE
    /\ timers = {}
    /\ scoreCalls = << >>
    /\ mounts = 1
    /\ lobby = GameLobbyState
    /\ channels = {}
    /\ host = [started |-> TRUE, questions |-> qs]
    /\ quickPoll = -1
    /\ join = JoinGameState
    /\ bestEffort = BestEffortState
    /\ hostGame = HostGameState
    /\ results = NoResults

\* GamePlay has just been mounted for a participant who is not the host
Mounted(qs) == MountedAs(qs, FALSE)

Init == \E qs \in QuestionSets : Mounted(qs)

Next ==
    \/ SelectAnswer
    \/ SubmitAnswer
    \/ AnswerProcessed
    \/ DelayedCallback
    \/ Tick
    \/ DeadlinePasses
    \/ TotalGameTimer
    \/ AutoSubmit
    \/ SubmitNow
    \/ ReviewGrid
    \/ ReviewQuestions
    \/ HandleBackToHome

Spec == Init /\ [][Next]_vars

(***************************************************************************)
(* SessionSpec: a one-question session over several mounts of GamePlay:    *)
(* the wallet disconnects and reconnects, the transaction settles, the     *)
(* host ends the game.                                                     *)
(***************************************************************************)
SessionInit == \E qs \in RandomQuestions(1) : Mounted(qs)

SessionNext ==
    \/ Next
    \/ ScoreSettles
    \/ Disconnect
    \/ Reconnect
    \/ GameEnded
    \/ LocalEndGame

SessionSpec == SessionInit /\ [][SessionNext]_vars

(***************************************************************************)
(* Settlement and answer records: C1 - C4.                                 *)
(***************************************************************************)
\* C1: for one session the client calls submitFinalScore at most once,
\* over answers, timeouts, revisits, Submit Now, the auto-submit timer,
\* wallet disconnect/reconnect and remounts of GamePlay.
C1_SubmitFinalScoreAtMostOnce == Len(scoreCalls) <= 1

\* the aggregate over the last record written per question
RECURSIVE AggregateLatest(_)
AggregateLatest(latest) ==
    IF latest = << >> THEN [totalScore |-> 0, correctCount |-> 0]
    ELSE LET rest == AggregateLatest(Tail(latest))
         IN  [totalScore |-> latest[1].pointsEarned + rest.totalScore,
              correctCount |-> (IF latest[1].isCorrect THEN 1 ELSE 0)
                               + rest.correctCount]

\* C2: the totalScore and correctCount passed to submitFinalScore are the
\* sum of pointsEarned and the count of isCorrect over the latest record
\* per questionIndex only.
C2_SubmittedAggregateIsOverLatest ==
    [][scoreCalls' # scoreCalls =>
          scoreCalls'[Len(scoreCalls')] = AggregateLatest(gp.latest)]_vars

\* C3: the record list never holds two records with the same questionIndex.
C3_OneRecordPerQuestion ==
    \A i, j \in 1..Len(gp.playerAnswers) :
        i # j => gp.playerAnswers[i].questionIndex # gp.playerAnswers[j].questionIndex

\* C4: once the final score has been submitted (hasAutoSubmitted set and
\* submitFinalScore issued) the answer records of the mounted GamePlay do
\* not change any more.
C4_RecordsFrozenAfterSubmission ==
    [][(mounted /\ mounted' /\ gp.hasAutoSubmitted /\ scoreCalls # << >>)
          => gp'.playerAnswers = gp.playerAnswers]_vars

(***************************************************************************)
(* The two deadlines and the order of live play: C5, C6, C8.               *)
(***************************************************************************)
\* live play: the phase has not been 'review' since the mount
LivePlay(g) == g.gamePhase = "playing" /\ ~g.reachedReview

\* the records of question index in a record list
RecordsOf(answers, index) ==
    { k \in 1..Len(answers) : answers[k].questionIndex = index }

\* C5: when the whole-session timer fires in live play, every question has
\* a record afterwards, each question without a record before is recorded
\* once as a timeout with zero points, the records that existed are
\* unchanged and the phase is 'review'.
C5_SessionDeadlineMarksUnanswered ==
    [][(TotalGameTimer /\ LivePlay(gp)) =>
          /\ gp'.gamePhase = "review"
          /\ Len(gp'.playerAnswers) >= Len(gp.playerAnswers)
          /\ SubSeq(gp'.playerAnswers, 1, Len(gp.playerAnswers)) = gp.playerAnswers
          /\ \A index \in 0..(NumQ(gp) - 1) :
                /\ HasAnswer(gp'.playerAnswers, index)
                /\ ~HasAnswer(gp.playerAnswers, index) =>
                      /\ Cardinality(RecordsOf(gp'.playerAnswers, index)) = 1
                      /\ \A k \in RecordsOf(gp'.playerAnswers, index) :
                            /\ gp'.playerAnswers[k].selectedAnswer = -1
                            /\ gp'.playerAnswers[k].isCorrect = FALSE
                            /\ gp'.playerAnswers[k].pointsEarned = 0]_vars

\* the whole-session timer has ended live play on a question before the
\* last one, and a later question carries a timeout record
C5_Witness ==
    /\ InReview /\ gp.revisits = 0
    /\ \E index \in 0..(NumQ(gp) - 1) :
          /\ index > gp.currentQuestionIndex
          /\ HasAnswer(gp.playerAnswers, index)
          /\ gp.latest[index + 1].selectedAnswer = -1

\* C6: when the per-question countdown reaches zero in live play on a
\* question without a record, a timeout record is recorded for it and the
\* participant is forced to the next question, or to review from the last
\* one, also when an option is selected but not submitted.
C6_QuestionDeadlineForcesTimeout ==
    [][(/\ mounted /\ mounted' /\ LivePlay(gp)
        /\ gp.timeLeft > 0 /\ gp'.timeLeft = 0
        /\ ~HasAnswer(gp.playerAnswers, gp.currentQuestionIndex))
       => /\ \E k \in RecordsOf(gp'.playerAnswers, gp.currentQuestionIndex) :
                /\ gp'.playerAnswers[k].selectedAnswer = -1
                /\ gp'.playerAnswers[k].pointsEarned = 0
          /\ IF gp.currentQuestionIndex + 1 < NumQ(gp)
             THEN gp'.currentQuestionIndex = gp.currentQuestionIndex + 1
             ELSE Timer("timeUpReview", 0, 0, 0) \in timers']_vars

\* C8: in live play the question index starts at 0 and only moves by one,
\* together with the first record of the question left; the records are
\* in increasing questionIndex order without a gap; and the record of the
\* last question comes with the move to review.
C8_LivePlayInOrder ==
    /\ (mounted => gp.currentQuestionIndex = 0)
    /\ [][(mounted /\ mounted' /\ ~gp'.reachedReview) =>
             /\ gp'.currentQuestionIndex # gp.currentQuestionIndex =>
                   /\ gp'.currentQuestionIndex = gp.currentQuestionIndex + 1
                   /\ ~HasAnswer(gp.playerAnswers, gp.currentQuestionIndex)
                   /\ HasAnswer(gp'.playerAnswers, gp.currentQuestionIndex)
             /\ Len(gp'.playerAnswers) # Len(gp.playerAnswers) =>
                   /\ Len(gp'.playerAnswers) = Len(gp.playerAnswers) + 1
                   /\ gp'.playerAnswers[Len(gp'.playerAnswers)].questionIndex
                         = gp.currentQuestionIndex
                   /\ IF gp.currentQuestionIndex + 1 < NumQ(gp)
                      THEN gp'.currentQuestionIndex = gp.currentQuestionIndex + 1
                      ELSE \E c \in timers' :
                              c.kind \in {"timeUpReview", "submitDoneReview"}
             /\ \A k \in 1..Len(gp'.playerAnswers) :
                   gp'.playerAnswers[k].questionIndex = k - 1]_vars

\* live play has moved on to the second question with one record
C8_Witness ==
    /\ mounted /\ LivePlay(gp)
    /\ gp.currentQuestionIndex = 1
    /\ Len(gp.playerAnswers) = 1
    /\ gp.playerAnswers[1].questionIndex = 0

(***************************************************************************)
(* LiveSpec: the participant stays in the game (no Leave Game) and time    *)
(* passes: the whole-session deadline is reached and the interval of the   *)
(* total game timer keeps firing. Nothing is assumed of the per-question   *)
(* timer, whose events may be lost, nor of the participant.                *)
(***************************************************************************)
LiveNext ==
    \/ SelectAnswer
    \/ SubmitAnswer
    \/ AnswerProcessed
    \/ DelayedCallback
    \/ Tick
    \/ DeadlinePasses
    \/ TotalGameTimer
    \/ AutoSubmit
    \/ SubmitNow
    \/ ReviewGrid
    \/ ReviewQuestions

LiveSpec ==
    /\ Init
    /\ [][LiveNext]_vars
    /\ WF_vars(DeadlinePasses)
    /\ WF_vars(TotalGameTimer)

\* C7: a game that is in the 'playing' phase eventually is in 'review',
\* whatever the participant does and whichever per-question timeouts are
\* lost or have no effect.
C7_PlayingLeadsToReview == Playing ~> InReview

\* the whole-session timer has ended live play on a question, not the
\* last one, whose countdown had run out with an option selected and not
\* submitted
C7_Witness ==
    /\ InReview /\ gp.revisits = 0 /\ expired
    /\ gp.timeLeft = 0
    /\ gp.selectedAnswer \in 0..(NumOptions - 1)
    /\ ~gp.isSubmitting
    /\ gp.currentQuestionIndex + 1 < NumQ(gp)
    /\ \A index \in gp.currentQuestionIndex..(NumQ(gp) - 1) :
          gp.latest[index + 1].selectedAnswer = -1

(***************************************************************************)
(* ScoreSpec: a game over the whole pool, in any order, played once        *)
(* through (no revisit from review) up to the submission of the score.     *)
(***************************************************************************)
ScoreInit == \E qs \in RandomQuestions(Len(Pool)) : Mounted(qs)

ScoreNext ==
    \/ SelectAnswer
    \/ SubmitAnswer
    \/ AnswerProcessed
    \/ DelayedCallback
    \/ Tick
    \/ DeadlinePasses
    \/ TotalGameTimer
    \/ AutoSubmit
    \/ SubmitNow

ScoreSpec == ScoreInit /\ [][ScoreNext]_vars

\* difficulties {1,2,0}: first question answered correctly, second
\* incorrectly, third timed out
Scenario ==
    /\ mounted /\ NumQ(gp) = 3
    /\ [i \in 1..3 |-> gp.questions[i].difficulty] = <<1, 2, 0>>
    /\ Len(gp.playerAnswers) = 3
    /\ \A k \in 1..3 : gp.playerAnswers[k].questionIndex = k - 1
    /\ gp.playerAnswers[1].selectedAnswer = gp.questions[1].correctAnswer
    /\ gp.playerAnswers[2].selectedAnswer \in 0..(NumOptions - 1)
    /\ gp.playerAnswers[2].selectedAnswer # gp.questions[2].correctAnswer
    /\ gp.playerAnswers[3].selectedAnswer = -1

LobbyInit ==
    /\ gameState = "waiting"
    /\ gameSession = [present |-> TRUE, isHost |-> FALSE, sessionId |-> 1]
    /\ isConnected = TRUE
    /\ localStorage = [questions |-> << >>, started |-> FALSE, questionCount |-> 1]
    /\ gp = GamePlayState
    /\ mounted = FALSE
    /\ expired = FALSE
    /\ timers = {}
    /\ scoreCalls = << >>
    /\ mounts = 0
    /\ lobby = GameLobbyState
    /\ channels = {}
    /\ host = [started |-> FALSE, questions |-> << >>]
    /\ quickPoll = -1
    /\ join = JoinGameState
    /\ bestEffort = BestEffortState
    /\ hostGame = HostGameState
    /\ results = NoResults

LobbyNext ==
    \/ SessionStarted
    \/ ProceedWithGameStart
    \/ OnSessionStarted
    \/ QuickPoll
    \/ OnBroadcastMessage
    \/ HandleStorageChange
    \/ HandleCustomGameStart
    \/ OnStartGame
    \/ SelectAnswer
    \/ SubmitAnswer
    \/ AnswerProcessed
    \/ DelayedCallback
    \/ Tick
    \/ HandleBackToHome

LobbySpec == LobbyInit /\ [][LobbyNext]_vars

\* C10: however the deliveries of one start (BroadcastChannel message,
\* storage event, custom event, SessionStarted log) and their callbacks are
\* ordered, the participant goes from the lobby into play at most once, that
\* step brings up the one GamePlay of the session on the list the host
\* published, a further callback while in play leaves that GamePlay as it
\* is, and the room's stored list is never anything but the published one.
C10_OneStartOneQuestionSet ==
    /\ [](mounts <= 1 /\ localStorage.questions \in {<< >>, host.questions})
    /\ [][ /\ (gameState = "waiting" /\ gameState' = "playing")
              => /\ mounts = 0 /\ mounts' = 1 /\ mounted'
                 /\ gp'.questions = host.questions
                 /\ localStorage'.questions = host.questions
           /\ (OnStartGame /\ gameState = "playing")
              => UNCHANGED <<gameState, mounted, gp, mounts, localStorage>> ]_vars

\* in play on the published list, after the start has been delivered on a
\* second channel whose callback is still to run
C10_Witness ==
    /\ gameState = "playing" /\ mounted /\ mounts = 1
    /\ gp.questions = host.questions
    /\ gp.playerAnswers # << >>
    /\ channels = {}
    /\ \E c \in timers : c.kind = "onStartGame"

\* C11: an onStartGame callback that runs when the participant is no longer
\* in the lobby (the application is playing, ended or home) changes neither
\* the application state nor the current question index nor the answer
\* records.
C11_LateStartIsNoOp ==
    [][(OnStartGame /\ gameState # "waiting")
          => /\ gameState' = gameState
             /\ gp'.currentQuestionIndex = gp.currentQuestionIndex
             /\ gp'.playerAnswers = gp.playerAnswers]_vars

(***************************************************************************)
(* StatusSpec: the course of a participant who is not the host from the    *)
(* moment the first start callback of the lobby has mounted GamePlay, the  *)
(* callbacks of the other deliveries still pending, through play and       *)
(* review to the end of the game or to Leave. The game has the first two   *)
(* questions of the pool.                                                  *)
(***************************************************************************)
StatusInit ==
    \E qs \in {SubSeq(Pool, 1, 2)}, late \in SUBSET {"chain", "storage", "custom"} :
       /\ gameState = "playing"
       /\ gameSession = [present |-> TRUE, isHost |-> FALSE, sessionId |-> 1]
       /\ isConnected = TRUE
       /\ localStorage = [questions |-> qs, started |-> TRUE, questionCount |-> 1]
       /\ gp = InitialiseGame(qs)
       /\ mounted = TRUE
       /\ expired = FALSE
       /\ timers = { StartTimer(ch) : ch \in late }
       /\ scoreCalls = << >>
       /\ mounts = 1
       /\ lobby = GameLobbyState
       /\ channels = {}
       /\ host = [started |-> TRUE, questions |-> qs]
       /\ quickPoll = -1
       /\ join = JoinGameState
    /\ bestEffort = BestEffortState
    /\ hostGame = HostGameState
    /\ results = NoResults

StatusNext ==
    \/ Next
    \/ OnStartGame
    \/ ScoreSettles
    \/ GameEnded
    \/ LocalEndGame

StatusSpec == StatusInit /\ [][StatusNext]_vars

\* the order of the phases of GamePlay
PhaseRank(phase) ==
    CASE phase = "waiting" -> 0
      [] phase = "playing" -> 1
      [] phase = "review" -> 2
      [] phase = "ended" -> 3

C13_EndedOnlyAfterSettlement ==
    [][(gameState # "ended" /\ gameState' = "ended")
          => /\ mounted /\ gp.gamePhase = "review"
             /\ gp.scoreTx = "success"]_vars

(***************************************************************************)
(* SettleSpec: a one-question game of a participant who stays; time        *)
(* passes, the auto-submit timeout fires when it is armed, and the wallet  *)
(* and the chain settle every transaction that was sent.                   *)
(***************************************************************************)
SettleNext ==
    \/ LiveNext
    \/ ScoreSettles

SettleSpec ==
    /\ SessionInit
    /\ [][SettleNext]_vars
    /\ WF_vars(DeadlinePasses)
    /\ WF_vars(TotalGameTimer)
    /\ WF_vars(AutoSubmit)
    /\ WF_vars(ScoreSettles)

\* C14: a submitFinalScore transaction that failed is followed by another
\* submission (the transaction is pending again, or confirmed).
C14_FailedScoreIsRetried ==
    (mounted /\ gp.scoreTx = "error") ~> (mounted /\ gp.scoreTx \in {"pending", "success"})

(***************************************************************************)
(* The join screen (JoinGame.tsx): the room code is looked up in the       *)
(* registry of the backend, joinSession is sent to the ledger, and the     *)
(* confirmed transaction takes the participant to the lobby.               *)
(***************************************************************************)
\* the room codes a participant enters; the last one is registered nowhere
RoomCodes == 1..NumCodes

\* the backend's /api/game/room/<code>: the session id, 0 for no session
Registry(code) == IF code < NumCodes THEN 10 + code ELSE 0

\* the input and the Join button are disabled
JoinDisabled(j) == j.tx \in {"pending", "confirming"} \/ j.isFetchingSession

\* the join success effect, which React runs after a render in which
\* isSuccess, hash, sessionId or enteredRoomCode changed: socket join and
\* onGameJoined in 500 ms, for the sessionId and enteredRoomCode of that render
JoinSuccessEffect(old, new) ==
    IF /\ <<old.tx, old.sessionId, old.enteredRoomCode>>
            # <<new.tx, new.sessionId, new.enteredRoomCode>>
       /\ new.tx = "success" /\ new.sessionId # 0
    THEN [j |-> [new EXCEPT !.isFetchingSession = FALSE],
          add |-> {Timer("onGameJoined", new.sessionId, new.enteredRoomCode, 0)}]
    ELSE [j |-> new, add |-> {}]

\* a handler of JoinGame took join to j
JoinCommit(j) ==
    LET r == JoinSuccessEffect(join, j)
    IN  /\ join' = r.j
        /\ timers' = timers \cup r.add
        /\ IF r.add # {} THEN Emit("game:join") ELSE UNCHANGED bestEffort

\* what JoinGame leaves alone
JoinUnchanged ==
    UNCHANGED <<gameState, gameSession, isConnected, localStorage, mounted, gp,
                expired, scoreCalls, mounts, lobby, channels, host, quickPoll,
                hostGame, results>>

\* onJoinGame of the home page: JoinGame is mounted
OpenJoin ==
    /\ isConnected /\ gameState = "home"
    /\ gameState' = "join"
    /\ join' = JoinGameState
    /\ UNCHANGED <<gameSession, isConnected, localStorage, mounted, gp, expired,
                   timers, scoreCalls, mounts, lobby, channels, host, quickPoll,
                   bestEffort, hostGame, results>>

\* handleInputChange: a six-character code is typed
HandleInputChange ==
    /\ isConnected /\ gameState = "join" /\ ~JoinDisabled(join)
    /\ \E code \in RoomCodes :
          /\ code # join.roomCode
          /\ JoinCommit([join EXCEPT !.roomCode = code])
    /\ JoinUnchanged

\* joinGame up to the await of the fetch
JoinGame ==
    /\ isConnected /\ gameState = "join" /\ ~JoinDisabled(join)
    /\ join.roomCode # 0
    /\ JoinCommit([join EXCEPT !.enteredRoomCode = join.roomCode,
                               !.isFetchingSession = TRUE,
                               !.lookups = join.lookups \cup {join.roomCode}])
    /\ JoinUnchanged

\* joinGame after the fetch: with a session id, setSessionId and
\* writeContract(joinSession); else the catch block
LookupReturns ==
    /\ isConnected /\ gameState = "join"
    /\ \E code \in join.lookups, ok \in BOOLEAN :
          LET waited == [join EXCEPT !.lookups = join.lookups \ {code}]
          IN  IF ok /\ Registry(code) # 0
              THEN JoinCommit([waited EXCEPT !.sessionId = Registry(code),
                                             !.tx = "pending"])
              ELSE JoinCommit([waited EXCEPT !.isFetchingSession = FALSE])
    /\ JoinUnchanged

\* the wallet answers the joinSession request: the transaction is sent, or
\* the request is rejected and the error effect runs
JoinWalletAnswers ==
    /\ isConnected /\ gameState = "join" /\ join.tx = "pending"
    /\ \/ JoinCommit([join EXCEPT !.tx = "confirming"])
       \/ JoinCommit([join EXCEPT !.tx = "error", !.isFetchingSession = FALSE])
    /\ JoinUnchanged

\* the receipt of the joinSession transaction: confirmed or reverted
JoinReceipt ==
    /\ isConnected /\ gameState = "join" /\ join.tx = "confirming"
    /\ \E outcome \in {"success", "reverted"} :
          JoinCommit([join EXCEPT !.tx = outcome])
    /\ JoinUnchanged

\* the 500 ms timeout of the join success effect: onGameJoined of App
OnGameJoined ==
    /\ \E c \in timers :
          /\ c.kind = "onGameJoined"
          /\ timers' = timers \ {c}
          /\ gameSession' = [present |-> TRUE, isHost |-> FALSE,
                              sessionId |-> c.idx]
    /\ gameState' = "waiting"
    /\ lobby' = GameLobbyState
    /\ UNCHANGED <<isConnected, localStorage, mounted, gp, expired, scoreCalls,
                   mounts, channels, host, quickPoll, join, bestEffort, hostGame, results>>

\* onBack of the join screen
JoinBack ==
    /\ isConnected /\ gameState = "join"
    /\ gameState' = "home"
    /\ UNCHANGED <<gameSession, isConnected, localStorage, mounted, gp, expired,
                   timers, scoreCalls, mounts, lobby, channels, host, quickPoll,
                   join, bestEffort, hostGame, results>>

(***************************************************************************)
(* JoinSpec: a participant on the home page joins games by room code.      *)
(***************************************************************************)
JoinInit ==
    /\ gameState = "home"
    /\ gameSession = NoSession
    /\ isConnected = TRUE
    /\ localStorage = [questions |-> << >>, started |-> FALSE, questionCount |-> 0]
    /\ gp = GamePlayState
    /\ mounted = FALSE
    /\ expired = FALSE
    /\ timers = {}
    /\ scoreCalls = << >>
    /\ mounts = 0
    /\ lobby = GameLobbyState
    /\ channels = {}
    /\ host = [started |-> FALSE, questions |-> << >>]
    /\ quickPoll = -1
    /\ join = JoinGameState
    /\ bestEffort = BestEffortState
    /\ hostGame = HostGameState
    /\ results = NoResults

JoinNext ==
    \/ OpenJoin
    \/ HandleInputChange
    \/ JoinGame
    \/ LookupReturns
    \/ JoinWalletAnswers
    \/ JoinReceipt
    \/ OnGameJoined
    \/ JoinBack
    \/ HandleBackToHome

JoinSpec == JoinInit /\ [][JoinNext]_vars

\* C15: every onGameJoined callback that is scheduled carries a session id
\* and the room code whose lookup returned that id: a room code whose lookup
\* failed is never joined, and never with the id of an earlier lookup.
C15_FailedLookupJoinsNothing ==
    \A c \in timers :
       c.kind = "onGameJoined" => (c.idx # 0 /\ c.idx = Registry(c.sel))

(***************************************************************************)
(* PollSpec: LobbySpec with the polling interval of the lobby running as   *)
(* long as it is set.                                                      *)
(***************************************************************************)
PollSpec == LobbyInit /\ [][LobbyNext]_vars /\ WF_vars(QuickPoll)

\* C16: the polling interval set after SessionStarted ends: it runs at most
\* MAX_RETRY + 2 times, it stops either with the start callback scheduled
\* (questions found) or by giving up after the last retry, and once it has
\* stopped it does not run again.
C16_PollingTerminates ==
    /\ [](quickPoll <= MAX_RETRY + 1)
    /\ (quickPoll >= 0) ~> (quickPoll = -1)
    /\ [][ /\ (quickPoll >= 0 /\ quickPoll' = -1)
              => \/ (StartTimer("poll") \in timers' /\ localStorage.questions # << >>)
                 \/ (quickPoll > MAX_RETRY /\ timers' = timers
                       /\ gameState' = gameState)
           /\ (quickPoll = -1 /\ quickPoll' >= 0)
              => (OnSessionStarted /\ "chain" \notin channels') ]_vars

\* the lobby after the polling gave up: SessionStarted was handled, no
\* questions are stored and the interval is cleared
C16_Witness ==
    /\ InLobby /\ lobby.gameStarted
    /\ localStorage.questions = << >>
    /\ quickPoll = -1

(***************************************************************************)
(* ChannelSpec: the host starts the session from its lobby and plays, in   *)
(* a browser with or without BroadcastChannel, while the push socket       *)
(* connects and disconnects.                                               *)
(***************************************************************************)
\* the 'disconnect' event of the socket
SocketDisconnect ==
    /\ bestEffort.connected
    /\ bestEffort' = [bestEffort EXCEPT !.connected = FALSE]
    /\ UNCHANGED <<gameState, gameSession, isConnected, localStorage, mounted,
                   gp, expired, timers, scoreCalls, mounts, lobbyVars, hostGame, results>>

\* the 'connect' event of the socket that App opened for the wallet
SocketConnect ==
    /\ isConnected /\ ~bestEffort.connected
    /\ bestEffort' = [bestEffort EXCEPT !.connected = TRUE]
    /\ UNCHANGED <<gameState, gameSession, isConnected, localStorage, mounted,
                   gp, expired, timers, scoreCalls, mounts, lobbyVars, hostGame, results>>

\* GameLobby is rendered for the host
InHostLobby ==
    /\ isConnected
    /\ gameState = "waiting"
    /\ gameSession.present /\ gameSession.isHost

\* startGame: the Start Game button, up to writeContract(startSession)
StartGame ==
    /\ InHostLobby /\ ~lobby.isStarting
    /\ lobby.tx \notin {"pending", "confirming"}
    /\ lobby' = [lobby EXCEPT !.isStarting = TRUE, !.tx = "pending"]
    /\ UNCHANGED <<gameState, gameSession, isConnected, localStorage, mounted,
                   gp, expired, timers, scoreCalls, mounts, channels, host,
                   quickPoll, join, bestEffort, hostGame, results>>

\* the startError effect: the wallet or the contract refuses startSession
StartError ==
    /\ InHostLobby /\ lobby.tx = "pending"
    /\ lobby' = [lobby EXCEPT !.isStarting = FALSE, !.tx = "error"]
    /\ UNCHANGED <<gameState, gameSession, isConnected, localStorage, mounted,
                   gp, expired, timers, scoreCalls, mounts, channels, host,
                   quickPoll, join, bestEffort, hostGame, results>>

\* the wallet sends the startSession transaction: startHash is set
StartSent ==
    /\ InHostLobby /\ lobby.tx = "pending"
    /\ lobby' = [lobby EXCEPT !.tx = "confirming"]
    /\ UNCHANGED <<gameState, gameSession, isConnected, localStorage, mounted,
                   gp, expired, timers, scoreCalls, mounts, channels, host,
                   quickPoll, join, bestEffort, hostGame, results>>

\* setTimeout(() => { removeItem(started); onStartGame() }, 2000)
HostStartTimer == Timer("hostOnStartGame", 0, 0, 0)

\* proceedWithGameStart where the exception of the BroadcastChannel
\* constructor reaches the outer catch: the list and the start flag are
\* stored, the rest of the sequence is skipped
ProceedUncaught(qs) ==
    /\ localStorage' = [localStorage EXCEPT !.questions = qs, !.started = TRUE]
    /\ IF bestEffort.BroadcastChannel
       THEN /\ channels' = channels \cup {"broadcast", "storage"}
            /\ lobby' = [lobby EXCEPT !.gameStarted = TRUE, !.isStarting = FALSE,
                                      !.tx = "success"]
            /\ timers' = timers \cup {HostStartTimer}
       ELSE /\ channels' = channels \cup {"storage"}
            /\ lobby' = [lobby EXCEPT !.isStarting = FALSE, !.tx = "success"]
            /\ UNCHANGED timers

\* proceedWithGameStart in the host's own tab for the generated list qs:
\* the list and the start flag are stored (the other tabs get the storage
\* event), the list is posted on the BroadcastChannel if one can be
\* constructed, gameStarted is set and onStartGame is scheduled
Proceed(qs) ==
    /\ localStorage' = [localStorage EXCEPT !.questions = qs, !.started = TRUE]
    /\ channels' = channels \cup {"storage"}
                    \cup IF bestEffort.BroadcastChannel THEN {"broadcast"} ELSE {}
    /\ lobby' = [lobby EXCEPT !.gameStarted = TRUE, !.isStarting = FALSE,
                              !.tx = "success"]
    /\ timers' = timers \cup {HostStartTimer}

\* the effect on isStartSuccess: the startSession transaction of the host
\* is confirmed and proceedWithGameStart runs
StartSuccess ==
    /\ InHostLobby /\ lobby.tx = "confirming" /\ ~host.started
    /\ \E qs \in RandomQuestions(IF localStorage.questionCount > 0
                                 THEN localStorage.questionCount ELSE 10)
                 \cap QuestionSets :
          /\ host' = [started |-> TRUE, questions |-> qs]
          /\ Proceed(qs)
    /\ UNCHANGED <<gameState, gameSession, isConnected, mounted, gp, expired,
                   scoreCalls, mounts, quickPoll, join, bestEffort, hostGame, results>>

\* the 2000 ms timeout of proceedWithGameStart; no cleanup clears it
HostOnStartGame ==
    /\ HostStartTimer \in timers
    /\ timers' = timers \ {HostStartTimer}
    /\ localStorage' = RemoveKeys(localStorage, {"started"})
    /\ HandleStartGame
    /\ UNCHANGED <<gameSession, isConnected, scoreCalls, channels, host,
                   quickPoll, join, bestEffort, hostGame, results>>

ChannelInit ==
    /\ gameState = "waiting"
    /\ gameSession = [present |-> TRUE, isHost |-> TRUE, sessionId |-> 1]
    /\ isConnected = TRUE
    /\ localStorage = [questions |-> << >>, started |-> FALSE, questionCount |-> 1]
    /\ gp = GamePlayState
    /\ mounted = FALSE
    /\ expired = FALSE
    /\ timers = {}
    /\ scoreCalls = << >>
    /\ mounts = 0
    /\ lobby = MountLobby(1, TRUE)
    /\ channels = {}
    /\ host = [started |-> FALSE, questions |-> << >>]
    /\ quickPoll = -1
    /\ join = JoinGameState
    /\ \E connected, supported \in BOOLEAN :
          bestEffort = [connected |-> connected, emitted |-> {},
                        BroadcastChannel |-> supported]
    /\ hostGame = HostGameState
    /\ results = NoResults

ChannelNext ==
    \/ StartGame
    \/ StartError
    \/ StartSent
    \/ StartSuccess
    \/ HostOnStartGame
    \/ SocketDisconnect
    \/ SocketConnect
    \/ SelectAnswer
    \/ SubmitAnswer
    \/ AnswerProcessed
    \/ DelayedCallback
    \/ Tick
    \/ HandleBackToHome

ChannelSpec == ChannelInit /\ [][ChannelNext]_vars /\ WF_vars(HostOnStartGame)

\* C17: a best-effort channel that fails stops nothing. Whether or not a
\* BroadcastChannel can be constructed, the confirmed start of the host
\* stores the question list, sets the start flag, shows the game as started
\* and schedules the transition, and the scheduled transition takes the
\* host from its lobby into play on that list; whether or not the socket is
\* connected, an answer that was submitted is recorded for its question;
\* and a socket that connects or disconnects changes nothing else.
C17_BestEffortNeverFatal ==
    /\ [][StartSuccess =>
             /\ localStorage'.questions = host'.questions
             /\ localStorage'.questions # << >>
             /\ localStorage'.started
             /\ lobby'.gameStarted
             /\ HostStartTimer \in timers']_vars
    /\ [][(HostOnStartGame /\ InHostLobby) =>
             /\ gameState' = "playing"
             /\ mounted' /\ gp'.questions = host.questions
             /\ gp'.gamePhase = "playing"]_vars
    /\ (HostStartTimer \in timers) ~> (gameState = "playing")
    /\ [][\A c \in timers \ timers' :
             (c.kind = "submitAwait" /\ mounted /\ mounted')
                => HasAnswer(gp'.playerAnswers, c.idx)]_vars
    /\ [][(bestEffort'.connected # bestEffort.connected) =>
             UNCHANGED <<gameState, gameSession, isConnected, localStorage,
                         mounted, gp, expired, timers, scoreCalls, mounts,
                         lobbyVars, hostGame, results>>]_vars

\* the host of a browser without BroadcastChannel is in play on the list it
\* published, and has recorded an answer that the disconnected socket did
\* not pass on
C17_Witness ==
    /\ gameSession.isHost /\ gameState = "playing" /\ mounted
    /\ ~bestEffort.BroadcastChannel /\ "broadcast" \notin channels
    /\ gp.questions = host.questions /\ localStorage.questions = host.questions
    /\ ~bestEffort.connected /\ "answer:submit" \notin bestEffort.emitted
    /\ Len(gp.playerAnswers) > 0
    /\ gp.playerAnswers[1].selectedAnswer # TIMEOUT

(***************************************************************************)
(* PlayersSpec: the player list of a lobby while PlayerJoined logs arrive  *)
(* and the wallet changes its account.                                     *)
(***************************************************************************)
Addresses == 1..NumAddresses

\* the logs one onLogs call may bring: the session they are for (own or
\* not) and the player they name (0: no address in the log)
PlayerJoinedLogs ==
    LET Log == [own : BOOLEAN, player : Addresses \cup {0}]
    IN  { <<a>> : a \in Log } \cup { <<a, b>> : a \in Log, b \in Log }

\* the updater without its playerExists test
AddPlayerUnchecked(prev, player) ==
    IF player # 0
    THEN Append(prev, [address |-> player, isHost |-> FALSE])
    ELSE prev

\* the updater of setPlayers in onLogs
AddPlayer(prev, player) ==
    LET playerExists == \E i \in DOMAIN prev : prev[i].address = player
    IN  IF ~playerExists /\ player # 0
        THEN Append(prev, [address |-> player, isHost |-> FALSE])
        ELSE prev

\* logs.forEach of the PlayerJoined watcher, from the list prev
RECURSIVE ForEachPlayerJoined(_, _)
ForEachPlayerJoined(prev, logs) ==
    IF logs = << >> THEN prev
    ELSE ForEachPlayerJoined(IF Head(logs).own
                             THEN AddPlayer(prev, Head(logs).player)
                             ELSE prev,
                             Tail(logs))

\* GameLobby is rendered, for the host or for a participant
LobbyRendered == isConnected /\ gameState = "waiting" /\ gameSession.present

\* onLogs of the PlayerJoined watcher, as far as the lobby goes (it also
\* passes the log's player count on to App, which only displays it)
OnPlayerJoined ==
    /\ LobbyRendered
    /\ \E logs \in PlayerJoinedLogs :
          lobby' = [lobby EXCEPT
                       !.players = ForEachPlayerJoined(lobby.players, logs),
                       !.repeated = @ \/ \E i \in DOMAIN logs :
                           /\ logs[i].own
                           /\ \E k \in DOMAIN lobby.players :
                                  lobby.players[k].address = logs[i].player]
    /\ UNCHANGED <<gameState, gameSession, isConnected, localStorage, mounted,
                   gp, expired, timers, scoreCalls, mounts, channels, host,
                   quickPoll, join, bestEffort, hostGame, results>>

\* the wallet changes to another account: the initialisation effect of the
\* players list runs again
AccountChanged ==
    /\ LobbyRendered
    /\ \E account \in Addresses \ {lobby.account} :
          lobby' = [lobby EXCEPT
                       !.account = account,
                       !.players = << [address |-> account,
                                       isHost |-> gameSession.isHost] >>]
    /\ UNCHANGED <<gameState, gameSession, isConnected, localStorage, mounted,
                   gp, expired, timers, scoreCalls, mounts, channels, host,
                   quickPoll, join, bestEffort, hostGame, results>>

PlayersInit ==
    /\ gameState = "waiting"
    /\ \E isHost \in BOOLEAN :
          /\ gameSession = [present |-> TRUE, isHost |-> isHost, sessionId |-> 1]
          /\ lobby = MountLobby(1, isHost)
    /\ isConnected = TRUE
    /\ localStorage = [questions |-> << >>, started |-> FALSE, questionCount |-> 1]
    /\ gp = GamePlayState
    /\ mounted = FALSE
    /\ expired = FALSE
    /\ timers = {}
    /\ scoreCalls = << >>
    /\ mounts = 0
    /\ channels = {}
    /\ host = [started |-> FALSE, questions |-> << >>]
    /\ quickPoll = -1
    /\ join = JoinGameState
    /\ bestEffort = BestEffortState
    /\ hostGame = HostGameState
    /\ results = NoResults

PlayersNext ==
    \/ OnPlayerJoined
    \/ AccountChanged
    \/ StartGame
    \/ StartError
    \/ HandleBackToHome

PlayersSpec == PlayersInit /\ [][PlayersNext]_vars

\* C18: whatever PlayerJoined logs arrive, in whatever batches, repeated for
\* one address or naming the local account, no two entries of the lobby's
\* player list have the same address.
C18_OneEntryPerAddress ==
    \A i, k \in DOMAIN lobby.players :
       lobby.players[i].address = lobby.players[k].address => i = k

\* the list holds the local account and two who joined, after a log that
\* named an address already on it
C18_Witness ==
    /\ LobbyRendered /\ lobby.repeated
    /\ Len(lobby.players) >= 3
    /\ lobby.players[1].address = lobby.account

(***************************************************************************)
(* HostSpec: the host creates games from the home page (HostGame.tsx).     *)
(***************************************************************************)
\* the session ids the ledger issues
LedgerIds == { 10 + code : code \in RoomCodes }

\* the values Date.now() may give, as session ids
DateNow == { 1000, 1001 }

\* the logs a receipt of createSession may hold for the issued id: the
\* SessionCreated event, events of other names, logs that decodeEventLog
\* rejects
Receipts(id) ==
    LET created == [eventName |-> "SessionCreated", sessionId |-> id]
        other == [eventName |-> "Transfer", sessionId |-> 0]
        undecodable == [eventName |-> "", sessionId |-> 0]
    IN  { <<created>>, <<other, created>>, <<undecodable, created>>,
          << >>, <<other>>, <<undecodable>> }

\* the session id the confirmation effect takes from the receipt
ExtractSessionId(receipt, now) ==
    LET found == { i \in DOMAIN receipt : receipt[i].eventName = "SessionCreated" }
    IN  IF found # {}
        THEN receipt[CHOOSE i \in found : \A k \in found : i <= k].sessionId
        ELSE now

\* what HostGame leaves alone
HostUnchanged ==
    UNCHANGED <<gameSession, isConnected, localStorage, mounted, gp, expired,
                scoreCalls, mounts, lobbyVars, bestEffort, results>>

\* onHostGame of the home page: HostGame is mounted
OpenHost ==
    /\ isConnected /\ gameState = "home"
    /\ gameState' = "create"
    /\ hostGame' = [HostGameState EXCEPT !.issued = hostGame.issued,
                                         !.registered = hostGame.registered]
    /\ UNCHANGED timers
    /\ HostUnchanged

\* createGame: a room code is generated and createSession is requested
CreateGame ==
    /\ isConnected /\ gameState = "create"
    /\ hostGame.tx \notin {"pending", "confirming"}
    /\ \E roomCode \in RoomCodes :
          hostGame' = [hostGame EXCEPT !.generatedRoomCode = roomCode,
                                       !.tx = "pending"]
    /\ UNCHANGED <<gameState, timers>>
    /\ HostUnchanged

\* the wallet answers the createSession request
HostWalletAnswers ==
    /\ isConnected /\ gameState = "create" /\ hostGame.tx = "pending"
    /\ \E answer \in {"confirming", "error"} :
          hostGame' = [hostGame EXCEPT !.tx = answer]
    /\ UNCHANGED <<gameState, timers>>
    /\ HostUnchanged

\* the createSession transaction is confirmed: the ledger has issued id,
\* the confirmation effect takes the session id from the receipt and
\* registerGameWithBackend posts it
HostReceipt ==
    /\ isConnected /\ gameState = "create" /\ hostGame.tx = "confirming"
    /\ \E id \in LedgerIds \ hostGame.issued :
       \E receipt \in Receipts(id), now \in DateNow :
          /\ hostGame' = [hostGame EXCEPT !.tx = "success",
                                          !.receipt = receipt,
                                          !.issued = @ \cup {id}]
          /\ timers' = timers \cup
                {Timer("registerGame", ExtractSessionId(receipt, now),
                       hostGame.generatedRoomCode, hostGame.questionCount)}
    /\ UNCHANGED gameState
    /\ HostUnchanged

\* the choices of the Number of Questions buttons
QuestionCounts == {5, 10, 15}

\* a Number of Questions button: setQuestionCount, and the confirmation
\* effect, of which questionCount is a dependency, runs again when the
\* transaction is confirmed
SetQuestionCount ==
    /\ isConnected /\ gameState = "create"
    /\ Cardinality({c \in timers : c.kind = "registerGame"}) < MaxPending
    /\ \E count \in QuestionCounts \ {hostGame.questionCount}, now \in DateNow :
          /\ hostGame' = [hostGame EXCEPT !.questionCount = count]
          /\ timers' = IF hostGame.tx = "success"
                       THEN timers \cup
                              {Timer("registerGame",
                                     ExtractSessionId(hostGame.receipt, now),
                                     hostGame.generatedRoomCode, count)}
                       ELSE timers
    /\ UNCHANGED gameState
    /\ HostUnchanged

\* the createSession transaction is reverted
HostReverted ==
    /\ isConnected /\ gameState = "create" /\ hostGame.tx = "confirming"
    /\ hostGame' = [hostGame EXCEPT !.tx = "error"]
    /\ UNCHANGED <<gameState, timers>>
    /\ HostUnchanged

\* the fetch of registerGameWithBackend returns, with the game registered
\* or not: onGameCreated of App either way
OnGameCreated ==
    /\ \E c \in timers, ok \in BOOLEAN :
          /\ c.kind = "registerGame"
          /\ timers' = timers \ {c}
          /\ hostGame' = IF ok THEN [hostGame EXCEPT !.registered = c.idx]
                         ELSE hostGame
          /\ localStorage' = [localStorage EXCEPT !.questionCount = c.len]
          /\ gameSession' = [present |-> TRUE, isHost |-> TRUE,
                              sessionId |-> c.idx]
    /\ gameState' = "waiting"
    /\ lobby' = MountLobby(1, TRUE)
    /\ UNCHANGED <<isConnected, mounted, gp, expired, scoreCalls, mounts,
                   channels, host, quickPoll, join, bestEffort, results>>

\* onBack of the host screen
HostBack ==
    /\ isConnected /\ gameState = "create"
    /\ gameState' = "home"
    /\ UNCHANGED <<hostGame, timers>>
    /\ HostUnchanged

HostInit ==
    /\ gameState = "home"
    /\ gameSession = NoSession
    /\ isConnected = TRUE
    /\ localStorage = [questions |-> << >>, started |-> FALSE, questionCount |-> 0]
    /\ gp = GamePlayState
    /\ mounted = FALSE
    /\ expired = FALSE
    /\ timers = {}
    /\ scoreCalls = << >>
    /\ mounts = 0
    /\ lobby = GameLobbyState
    /\ channels = {}
    /\ host = [started |-> FALSE, questions |-> << >>]
    /\ quickPoll = -1
    /\ join = JoinGameState
    /\ bestEffort = BestEffortState
    /\ hostGame = HostGameState
    /\ results = NoResults

HostNext ==
    \/ OpenHost
    \/ CreateGame
    \/ HostWalletAnswers
    \/ HostReceipt
    \/ HostReverted
    \/ SetQuestionCount
    \/ OnGameCreated
    \/ HostBack
    \/ HandleBackToHome

HostSpec == HostInit /\ [][HostNext]_vars

\* C19: the session id that the host posts to the registry, the id under
\* which the registry holds the game and the id of the host's session in
\* the lobby are ids that the ledger issued to the host's createSession
\* transactions, whatever the receipt holds.
C19_SessionIdIsLedgerIssued ==
    /\ \A c \in timers : c.kind = "registerGame" => c.idx \in hostGame.issued
    /\ hostGame.registered # 0 => hostGame.registered \in hostGame.issued
    /\ (gameSession.present /\ gameSession.isHost)
          => gameSession.sessionId \in hostGame.issued

\* C20: once the participant has left for the home page, nothing it
\* scheduled is still pending that can change the application state or
\* start the game: no onStartGame or localEndGame callback, and no polling
\* interval.
C20_NothingPendingAfterLeave ==
    (gameState = "home" /\ ~gameSession.present) =>
        /\ \A c \in timers :
              c.kind \notin {"onStartGame", "hostOnStartGame", "localEndGame"}
        /\ quickPoll = -1

(***************************************************************************)
(* PeerSpec: LobbySpec with a second participant of the session in another *)
(* tab of the same browser, which shares the localStorage of the device.   *)
(***************************************************************************)
\* handleBackToHome in the other participant's tab: the room's question
\* list and start flag are removed from the shared localStorage (the
\* storage event of a removal has no newValue and is ignored here)
PeerLeaves ==
    /\ localStorage' = RemoveKeys(localStorage, {"questions", "started"})
    /\ UNCHANGED <<gameState, gameSession, isConnected, mounted, gp, expired,
                   timers, scoreCalls, mounts, lobbyVars, bestEffort, hostGame, results>>

\* localEndGame in the other participant's tab, on the host's game:ended
\* (see GameEnded for when that can come)
PeerEndsGame ==
    /\ host.questions # << >> /\ channels = {}
    /\ quickPoll = -1 /\ \A c \in timers : c.kind # "onStartGame"
    /\ localStorage' = RemoveKeys(localStorage,
                                  {"questions", "started", "questionCount"})
    /\ UNCHANGED <<gameState, gameSession, isConnected, mounted, gp, expired,
                   timers, scoreCalls, mounts, lobbyVars, bestEffort, hostGame, results>>

PeerNext == LobbyNext \/ PeerLeaves \/ PeerEndsGame

PeerSpec == LobbyInit /\ [][PeerNext]_vars

\* C21: while this participant is in the lobby or has a start callback
\* pending, and so still has to read the shared question list, the leaving
\* or ending of another participant of the session leaves the stored list,
\* the start flag and the question count as they are; and the GamePlay this
\* participant then brings up is on the list the host published.
C21_PeerExitKeepsSharedState ==
    /\ [][((PeerLeaves \/ PeerEndsGame) /\ gameState = "waiting")
             => localStorage' = localStorage]_vars
    /\ []((mounted /\ gameSession.present) => gp.questions = host.questions)

(***************************************************************************)
(* WinnerSpec: a participant plays a one-question game; the host ends the  *)
(* session, the ledger determines the winner, the game ends locally.       *)
(***************************************************************************)
\* the host's endSession is confirmed: the contract records the winner
WinnerDetermined ==
    /\ results.ledgerWinner = 0
    /\ \E a \in Addresses : results' = [results EXCEPT !.ledgerWinner = a]
    /\ UNCHANGED <<gameState, gameSession, isConnected, localStorage, mounted,
                   gp, expired, timers, scoreCalls, mounts, lobbyVars,
                   bestEffort, hostGame>>

WinnerNext ==
    \/ SelectAnswer
    \/ SubmitAnswer
    \/ AnswerProcessed
    \/ DelayedCallback
    \/ Tick
    \/ WinnerDetermined
    \/ GameEnded
    \/ LocalEndGame
    \/ HandleBackToHome

WinnerSpec == SessionInit /\ [][WinnerNext]_vars

\* C22: the winner shown on the results screen is the address the ledger
\* determined, so that every participant of the session is shown the same
\* one.
C22_WinnerIsLedgerWinner ==
    (gameState = "ended" /\ results.ledgerWinner # 0)
        => results.winner = results.ledgerWinner

\* C23: while a question is revisited from review (the phase is 'playing'
\* again), no step takes the current question to another question: the
\* revisit ends, by an answer or by the countdown, in review on the same
\* question.
C23_RevisitIsTransient ==
    [][(mounted /\ mounted' /\ gp.revisits > 0 /\ gp.gamePhase = "playing")
          => gp'.currentQuestionIndex = gp.currentQuestionIndex]_vars

\* C24: within one mount of GamePlay the final score is submitted at most
\* once: a submission happens only while hasAutoSubmitted is false and sets
\* it, and once it is set it stays set and neither the auto-submit timer
\* nor Submit Now submits again, revisits or not.
C24_SubmitPathsExclusive ==
    /\ [](Len(scoreCalls) <= 1)
    /\ [][(scoreCalls' # scoreCalls)
             => (~gp.hasAutoSubmitted /\ gp'.hasAutoSubmitted)]_vars
    /\ [][(mounted /\ mounted' /\ gp.hasAutoSubmitted)
             => (gp'.hasAutoSubmitted /\ scoreCalls' = scoreCalls)]_vars

\* the score was submitted once, and the participant has since revisited a
\* question and is back in review
C24_Witness ==
    /\ InReview /\ gp.hasAutoSubmitted /\ Len(scoreCalls) = 1
    /\ gp.revisits > 0
    /\ Len(gp.playerAnswers) > Len(gp.questions)

\* C25: submitFinalScore is issued only from phase 'review' of a mounted
\* GamePlay and leaves the phase as it is; while a question is being
\* answered, in live play or in a revisit, the auto-submit timeout is not
\* pending.
C25_SubmittedOnlyInReview ==
    /\ [][(scoreCalls' # scoreCalls)
             => (InReview /\ mounted' /\ gp'.gamePhase = "review")]_vars
    /\ []((mounted /\ gp.gamePhase = "playing") => ~ENABLED AutoSubmit)

\* a question is revisited from a review in which the auto-submit countdown
\* was running: nothing has been submitted
C25_Witness ==
    /\ mounted /\ gp.gamePhase = "playing" /\ gp.revisits > 0
    /\ ~gp.hasAutoSubmitted /\ Len(gp.playerAnswers) >= NumQ(gp)
    /\ scoreCalls = << >>
    /\ \A c \in timers : c.kind \notin GamePlayKinds

(***************************************************************************)
(* SubmitSpec: Spec on the first two questions of the pool, with the       *)
(* timeouts of GamePlay firing: the auto-submit timeout, the 800 ms await  *)
(* and the 2 s callbacks.                                                  *)
(***************************************************************************)
SubmitInit == Mounted(SubSeq(Pool, 1, 2))

SubmitSpec ==
    /\ SubmitInit /\ [][Next]_vars
    /\ WF_vars(AutoSubmit) /\ WF_vars(AnswerProcessed) /\ WF_vars(DelayedCallback)

\* C26: from a review with at least one record and the score not yet
\* submitted, unless the participant revisits a question or leaves,
\* submitFinalScore is eventually issued, and every submitFinalScore call
\* carries the aggregate of the records held at that moment.
C26_ReviewLeadsToSubmission ==
    /\ (InReview /\ Len(gp.playerAnswers) > 0 /\ ~gp.hasAutoSubmitted)
          ~> \/ ~mounted
             \/ gp.gamePhase # "review"
             \/ /\ gp.hasAutoSubmitted /\ scoreCalls # << >>
                /\ scoreCalls[Len(scoreCalls)] = Aggregate(gp.playerAnswers)
    /\ [][(scoreCalls' # scoreCalls)
             => scoreCalls' = Append(scoreCalls, Aggregate(gp.playerAnswers))]_vars

\* the auto-submit timeout has submitted the aggregate of a game played
\* once through, with points earned
C26_Witness ==
    /\ InReview /\ gp.hasAutoSubmitted /\ gp.revisits = 0 /\ ~expired
    /\ scoreCalls = << Aggregate(gp.playerAnswers) >>
    /\ scoreCalls[1].totalScore > 0
    /\ Len(gp.playerAnswers) = NumQ(gp)

(***************************************************************************)
(* EndSpec: the host, or another participant, plays a one-question game    *)
(* to the end of the session.                                              *)
(***************************************************************************)
\* the End Session button shown to anyone whose score is submitted
EndSessionAnyone ==
    /\ InReview /\ gp.hasAutoSubmitted
    /\ gp.endTx \notin {"pending", "confirming"}
    /\ Commit([gp EXCEPT !.endTx = "pending"], {}, {})
    /\ Emit("game:end")
    /\ UNCHANGED <<gameState, gameSession, isConnected, localStorage, mounted,
                   expired, scoreCalls, mounts, lobbyVars, hostGame, results>>

\* the End Session (Host Only) button: writeEndSession(endSession) and the
\* game:end emit
EndSession ==
    /\ InReview /\ gp.hasAutoSubmitted /\ gp.scoreTx = "success"
    /\ gameSession.isHost
    /\ gp.endTx \notin {"pending", "confirming"}
    /\ Commit([gp EXCEPT !.endTx = "pending"], {}, {})
    /\ Emit("game:end")
    /\ UNCHANGED <<gameState, gameSession, isConnected, localStorage, mounted,
                   expired, scoreCalls, mounts, lobbyVars, hostGame, results>>

\* the wallet sends the endSession transaction
EndSessionSent ==
    /\ mounted /\ gp.endTx = "pending"
    /\ Commit([gp EXCEPT !.endTx = "confirming"], {}, {})
    /\ UNCHANGED scoreCalls
    /\ UNCHANGED bestEffort
    /\ AppUnchanged

\* the endSession transaction is confirmed, or it is rejected or reverted:
\* the isEndSuccess effect and the endError effect both call localEndGame
EndSessionSettles ==
    /\ mounted /\ gp.endTx \in {"pending", "confirming"}
    /\ LocalEndGameNow
    /\ UNCHANGED bestEffort

EndInit == \E qs \in RandomQuestions(1), isHost \in BOOLEAN : MountedAs(qs, isHost)

EndNext ==
    \/ Next
    \/ ScoreSettles
    \/ EndSession
    \/ EndSessionSent
    \/ EndSessionSettles
    \/ GameEnded
    \/ LocalEndGame
    \/ SocketDisconnect
    \/ SocketConnect

EndSpec == EndInit /\ [][EndNext]_vars

\* C27: an endSession transaction is requested and game:end is emitted
\* only in the host's client, from review, after the host's own final
\* score has been submitted and its transaction confirmed; the client of a
\* participant who is not the host never does either.
C27_OnlyHostEndsAfterScoreConfirmed ==
    /\ [][((gp'.endTx = "pending" /\ gp.endTx # "pending")
            \/ ("game:end" \in bestEffort'.emitted \ bestEffort.emitted))
             => /\ gameSession.isHost
                /\ InReview /\ gp.hasAutoSubmitted
                /\ scoreCalls # << >> /\ gp.scoreTx = "success"]_vars
    /\ []((gameSession.present /\ ~gameSession.isHost)
             => (gp.endTx = "idle" /\ "game:end" \notin bestEffort.emitted))

\* the host has ended the session: its score transaction was confirmed,
\* the endSession transaction is on its way and the backend has game:end
C27_Witness ==
    /\ gameSession.isHost /\ mounted /\ gp.scoreTx = "success"
    /\ gp.endTx = "confirming"
    /\ "game:end" \in bestEffort.emitted

(***************************************************************************)
(* StartSpec: a lobby of the host or of another participant, with every    *)
(* outcome of the startSession transaction.                                *)
(***************************************************************************)
\* the startSession transaction that was sent is reverted: isStartSuccess
\* stays false and startError, the error of useWriteContract, stays unset,
\* so that no effect of GameLobby runs
StartReverted ==
    /\ InHostLobby /\ lobby.tx = "confirming"
    /\ lobby' = [lobby EXCEPT !.tx = "reverted"]
    /\ UNCHANGED <<gameState, gameSession, isConnected, localStorage, mounted,
                   gp, expired, timers, scoreCalls, mounts, channels, host,
                   quickPoll, join, bestEffort, hostGame, results>>

StartInit ==
    /\ gameState = "waiting"
    /\ isConnected = TRUE
    /\ localStorage = [questions |-> << >>, started |-> FALSE, questionCount |-> 1]
    /\ gp = GamePlayState
    /\ mounted = FALSE
    /\ expired = FALSE
    /\ timers = {}
    /\ scoreCalls = << >>
    /\ mounts = 0
    /\ \E isHost \in BOOLEAN :
          /\ gameSession = [present |-> TRUE, isHost |-> isHost, sessionId |-> 1]
          /\ lobby = MountLobby(1, isHost)
    /\ channels = {}
    /\ host = [started |-> FALSE, questions |-> << >>]
    /\ quickPoll = -1
    /\ join = JoinGameState
    /\ \E connected, supported \in BOOLEAN :
          bestEffort = [connected |-> connected, emitted |-> {},
                        BroadcastChannel |-> supported]
    /\ hostGame = HostGameState
    /\ results = NoResults

StartNext == ChannelNext \/ StartReverted

StartSpec == StartInit /\ [][StartNext]_vars

\* C28: the host goes from its lobby into play only when its startSession
\* transaction has been confirmed and the question list it plays on has
\* been stored and published; after a startSession that was rejected or
\* that failed the host is still in its lobby and can start again; and
\* the lobby of a participant who is not the host never requests
\* startSession.
C28_HostStartsOnlyAfterConfirmation ==
    /\ [][(gameSession.isHost /\ gameState = "waiting" /\ gameState' = "playing")
            => /\ host.started /\ host.questions # << >>
               /\ localStorage.questions = host.questions
               /\ "storage" \in channels
               /\ gp'.questions = host.questions]_vars
    /\ [][(StartError \/ StartReverted) => gameState' = "waiting"]_vars
    /\ []((InHostLobby /\ lobby.tx \in {"error", "reverted"})
             => (~lobby.isStarting /\ ENABLED StartGame))
    /\ []((gameSession.present /\ ~gameSession.isHost) => lobby.tx = "idle")

\* C29: onGameJoined is scheduled only by a render in which the joinSession
\* transaction is confirmed, for the session id that the lookup of the
\* entered room code returned, and together with the game:join emit; a
\* joinSession that is rejected or reverted schedules none; and the
\* participant enters the lobby with that session id after the emit.
C29_JoinedOnlyAfterLookupAndConfirmation ==
    /\ [][\A c \in timers' \ timers :
             c.kind = "onGameJoined"
                => /\ c.sel = join'.enteredRoomCode
                   /\ c.idx # 0 /\ c.idx = Registry(c.sel)
                   /\ join'.sessionId = c.idx /\ join'.tx = "success"
                   /\ "game:join" \in bestEffort'.emitted]_vars
    /\ [][(join'.tx # join.tx /\ join'.tx \in {"error", "reverted"})
             => timers' \subseteq timers]_vars
    /\ [][OnGameJoined
             => \E c \in timers \ timers' :
                   /\ gameSession'.sessionId = c.idx
                   /\ c.idx = Registry(c.sel)
                   /\ "game:join" \in bestEffort.emitted]_vars

\* C30: the game is posted to the registry only by the render in which the
\* createSession transaction is confirmed, and that render posts it; every
\* post is followed by one onGameCreated, which takes the host to the
\* lobby of the posted session. A change of the settings while the post
\* is in flight posts nothing.
C30_RegisteredOncePerCreation ==
    /\ [][(\E c \in timers' \ timers : c.kind = "registerGame")
             => (hostGame.tx = "confirming" /\ hostGame'.tx = "success")]_vars
    /\ [][(hostGame.tx = "confirming" /\ hostGame'.tx = "success")
             => \E c \in timers' :
                   /\ c.kind = "registerGame"
                   /\ c.sel = hostGame.generatedRoomCode
                   /\ c.len = hostGame.questionCount]_vars
    /\ [][\A c \in timers \ timers' :
             c.kind = "registerGame"
                => /\ Cardinality(timers \ timers') = 1
                   /\ gameState' = "waiting"
                   /\ gameSession'.isHost /\ gameSession'.sessionId = c.idx]_vars

\* C31: whenever the application shows the lobby, the game or the results
\* (gameState is 'waiting', 'playing' or 'ended'), the game session is not
\* null; a callback that runs after handleBackToHome has cleared the
\* session does not bring one of these screens up.
C31_SessionPresentOnGameScreens ==
    gameState \in {"waiting", "playing", "ended"} => gameSession.present

\* C32: a GamePlay that is brought up for a session loads the question list
\* that the host published for it from the shared storage; it never
\* generates a list of its own.
C32_PlaysPublishedQuestionSet ==
    [][(~mounted /\ mounted' /\ gameSession.present)
          => /\ localStorage.questions # << >>
             /\ localStorage.questions = host.questions
             /\ gp'.questions = host.questions]_vars

(***************************************************************************)
(* ClockSpec: live play against the clock. The countdown of a question     *)
(* goes down once a second, the await of submitAnswer takes 800 ms and the *)
(* callbacks that bring up the next question 2000 ms; the participant      *)
(* answers without any delay of its own or lets the countdown run out.     *)
(***************************************************************************)
SECOND_MS == 1000

SUBMIT_AWAIT_MS == 800

NEXT_DELAY_MS == 2000

\* totalGameTime of the game initialisation effect, in seconds
RECURSIVE TotalGameTime(_)
TotalGameTime(qs) ==
    IF qs = << >> THEN 0
    ELSE LimitOf(qs, 0) + TotalGameTime(Tail(qs))

\* the time Commit is given to g
After(g, ms) == [g EXCEPT !.sinceStart = gp.sinceStart + ms]

\* one second of the countdown; a participant who has selected an option
\* submits it before the last second ends
ClockTick ==
    /\ Playing /\ gp.timeLeft > 0 /\ ~gp.isSubmitting
    /\ timers = {}
    /\ gp.timeLeft > 1 \/ gp.selectedAnswer = null
    /\ Commit(After([gp EXCEPT !.timeLeft = gp.timeLeft - 1], SECOND_MS), {}, {})
    /\ UNCHANGED scoreCalls
    /\ AppUnchanged

\* Submit Answer, clicked while the countdown runs
ClockSubmitAnswer ==
    /\ timers = {} /\ gp.timeLeft > 0
    /\ SubmitAnswer

\* the await of submitAnswer ends after 800 ms
ClockAnswerProcessed ==
    /\ mounted
    /\ \E c \in timers :
          /\ c.kind = "submitAwait"
          /\ LET r == SubmitAnswerResume(gp, c, 0)
             IN  Commit(After(r.g, SUBMIT_AWAIT_MS), {c}, r.add)
    /\ Emit("answer:submit")
    /\ UNCHANGED <<gameState, gameSession, isConnected, localStorage, mounted,
                   expired, scoreCalls, mounts, lobbyVars, hostGame, results>>

\* a callback of submitAnswer or handleTimeUp fires after 2000 ms
ClockDelayedCallback ==
    /\ mounted
    /\ \E c \in timers :
          /\ c.kind \in GamePlayKinds \ {"submitAwait"}
          /\ Commit(After(TimerFires(gp, c), NEXT_DELAY_MS), {c}, {})
    /\ UNCHANGED scoreCalls
    /\ AppUnchanged

\* the interval of the total game timer finds remainingTime <= 0
ClockDeadlinePasses ==
    /\ gp.sinceStart \div SECOND_MS >= TotalGameTime(gp.questions)
    /\ DeadlinePasses

ClockNext ==
    \/ SelectAnswer
    \/ ClockSubmitAnswer
    \/ ClockAnswerProcessed
    \/ ClockDelayedCallback
    \/ ClockTick
    \/ ClockDeadlinePasses
    \/ TotalGameTimer

ClockSpec == Init /\ [][ClockNext]_vars

\* C33: the whole-session deadline does not pass while the participant,
\* who has resolved every question so far within its time limit, still has
\* a question without a record.
C33_SessionDeadlineAfterLastQuestion ==
    [][(~expired /\ expired')
          => \A index \in 0..(NumQ(gp) - 1) :
                HasAnswer(gp.playerAnswers, index)]_vars

(***************************************************************************)
(* InputSpec: the room-code input of the join screen. Here a room code is  *)
(* the character string itself, over a small alphabet with an upper-case   *)
(* letter, a lower-case letter, a digit, a hyphen and a space.             *)
(***************************************************************************)
CodeLength == 6

Chars == {"A", "b", "7", "-", " "}

\* the characters /[^A-Za-z0-9]/ does not match
Alphanumeric == {"A", "b", "7"}

\* the characters of A-Z and 0-9
UpperAlphanumeric == {"A", "B", "7"}

\* String.prototype.toUpperCase
ToUpperCase(str) == [i \in DOMAIN str |-> IF str[i] = "b" THEN "B" ELSE str[i]]

\* String.prototype.trim
RECURSIVE Trim(_)
Trim(str) ==
    IF str = << >> THEN str
    ELSE IF Head(str) = " " THEN Trim(Tail(str))
    ELSE IF str[Len(str)] = " " THEN Trim(SubSeq(str, 1, Len(str) - 1))
    ELSE str

\* value.replace(/[^A-Za-z0-9]/g, '').slice(0, 6), in upper case
FilterRoomCode(value) ==
    LET replaced == SelectSeq(value, LAMBDA c : c \in Alphanumeric)
        filtered == SubSeq(replaced, 1, IF Len(replaced) < CodeLength
                                        THEN Len(replaced) ELSE CodeLength)
    IN  ToUpperCase(filtered)

\* texts that are pasted into the input
Pasted == { <<"b", "-", "7", " ", "A", "b", "7", "A", "b">>,
            <<" ", " ">>,
            <<"A", "b", "7", "A", "b", "7">> }

\* the values onChange can pass for the text the input holds
Edits(text) ==
    { Append(text, c) : c \in Chars }
       \cup (IF text = << >> THEN {} ELSE {SubSeq(text, 1, Len(text) - 1)})
       \cup Pasted

\* JoinGame as mounted, with the last toast it showed
JoinInputState ==
    [roomCode |-> << >>, sessionId |-> 0, enteredRoomCode |-> << >>,
     isFetchingSession |-> FALSE, tx |-> "idle", lookups |-> {}, toast |-> ""]

InputUnchanged ==
    UNCHANGED <<gameState, gameSession, isConnected, localStorage, mounted, gp,
                expired, timers, scoreCalls, mounts, lobby, channels, host,
                quickPoll, bestEffort, hostGame, results>>

\* handleInputChange(e.target.value)
InputChange ==
    /\ isConnected /\ gameState = "join" /\ ~JoinDisabled(join)
    /\ \E value \in Edits(join.roomCode) :
          /\ FilterRoomCode(value) # join.roomCode
          /\ join' = [join EXCEPT !.roomCode = FilterRoomCode(value)]
    /\ InputUnchanged

\* joinGame without its two validations
JoinGameUnvalidated(j) ==
    [j EXCEPT !.enteredRoomCode = ToUpperCase(j.roomCode),
              !.isFetchingSession = TRUE,
              !.lookups = j.lookups \cup {j.roomCode},
              !.toast = "Finding game session..."]

\* joinGame up to the await of the fetch
JoinGameValidated(j) ==
    IF Trim(j.roomCode) = << >>
    THEN [j EXCEPT !.toast = "Please enter a room code"]
    ELSE IF Len(j.roomCode) # CodeLength
    THEN [j EXCEPT !.toast = "Room code must be 6 characters"]
    ELSE [j EXCEPT !.enteredRoomCode = ToUpperCase(j.roomCode),
                   !.isFetchingSession = TRUE,
                   !.lookups = j.lookups \cup {j.roomCode},
                   !.toast = "Finding game session..."]

\* joinGame is called on whatever the input holds
JoinGameCall ==
    /\ isConnected /\ gameState = "join" /\ ~JoinDisabled(join)
    /\ join' = JoinGameValidated(join)
    /\ join' # join
    /\ InputUnchanged

\* joinGame after the fetch: with a session id, setSessionId and
\* writeContract(joinSession); else the catch block
InputLookupReturns ==
    /\ isConnected /\ gameState = "join"
    /\ \E code \in join.lookups, id \in {0} \cup LedgerIds :
          LET waited == [join EXCEPT !.lookups = join.lookups \ {code}]
          IN  join' = IF id # 0
                      THEN [waited EXCEPT !.sessionId = id, !.tx = "pending",
                                          !.toast = "Joining game on-chain..."]
                      ELSE [waited EXCEPT !.isFetchingSession = FALSE,
                                          !.toast = "Game not found with this room code"]
    /\ InputUnchanged

\* the wallet rejects the joinSession request: the error effect
InputWalletRejects ==
    /\ isConnected /\ gameState = "join" /\ join.tx = "pending"
    /\ join' = [join EXCEPT !.tx = "error", !.isFetchingSession = FALSE,
                            !.toast = "Failed to join game"]
    /\ InputUnchanged

InputInit ==
    /\ gameState = "join"
    /\ gameSession = NoSession
    /\ isConnected = TRUE
    /\ localStorage = [questions |-> << >>, started |-> FALSE, questionCount |-> 0]
    /\ gp = GamePlayState
    /\ mounted = FALSE
    /\ expired = FALSE
    /\ timers = {}
    /\ scoreCalls = << >>
    /\ mounts = 0
    /\ lobby = GameLobbyState
    /\ channels = {}
    /\ host = [started |-> FALSE, questions |-> << >>]
    /\ quickPoll = -1
    /\ join = JoinInputState
    /\ bestEffort = BestEffortState
    /\ hostGame = HostGameState
    /\ results = NoResults

InputNext ==
    \/ InputChange
    \/ JoinGameCall
    \/ InputLookupReturns
    \/ InputWalletRejects

InputSpec == InputInit /\ [][InputNext]_vars

\* C34: joinGame on an empty room code, or on one that is not 6 characters
\* long, starts no lookup and requests no transaction and leaves sessionId,
\* enteredRoomCode and the fetching flag as they are; every lookup is for a
\* code of 6 characters; and the input never holds more than 6 characters
\* or a character outside A-Z and 0-9.
C34_InvalidRoomCodeJoinsNothing ==
    /\ [][(JoinGameCall /\ Len(join.roomCode) # CodeLength)
            => /\ join'.lookups = join.lookups
               /\ join'.tx = join.tx
               /\ join'.sessionId = join.sessionId
               /\ join'.enteredRoomCode = join.enteredRoomCode
               /\ join'.isFetchingSession = join.isFetchingSession]_vars
    /\ [](\A code \in join.lookups : Len(code) = CodeLength)
    /\ [](join.tx # "idle" => Len(join.enteredRoomCode) = CodeLength)
    /\ [](/\ Len(join.roomCode) <= CodeLength
          /\ \A i \in DOMAIN join.roomCode :
                join.roomCode[i] \in UpperAlphanumeric)

\* joinGame was called on a code of fewer than 6 characters that came out
\* of a longer paste, after an earlier join had failed
C34_Witness ==
    /\ join.toast = "Room code must be 6 characters"
    /\ Len(join.roomCode) \in 1..(CodeLength - 1)
    /\ join.tx = "error" /\ join.lookups = {} /\ ~join.isFetchingSession

(***************************************************************************)
(* ServiceSpec: the SocketService singleton under any sequence of calls.   *)
(* Sockets are numbered as io() makes them; socket 0 is null. open holds   *)
(* the sockets that were made and not disconnected, listeners the events   *)
(* with a listener on the current socket, emitted the events passed to a   *)
(* socket's emit, returned what the last connect() returned.               *)
(***************************************************************************)
MaxSockets == 3

\* the events ServiceSpec emits and listens to
EmitEvents == {"game:join", "answer:submit", "game:end"}

ListenEvents == {"player:joined", "game:ended", "error"}

\* the listeners connect() registers on a new socket
OwnListeners == {"connect", "disconnect", "connect_error", "error"}

SocketServiceState ==
    [socket |-> 0, open |-> {}, made |-> 0, returned |-> 0,
     listeners |-> {}, emitted |-> {},
     connected |-> FALSE, BroadcastChannel |-> TRUE]

ServiceUnchanged ==
    UNCHANGED <<gameState, gameSession, isConnected, localStorage, mounted, gp,
                expired, timers, scoreCalls, mounts, lobbyVars, hostGame,
                results>>

\* connect() that makes a socket whether or not one exists
ConnectAnew(svc) ==
    [svc EXCEPT !.socket = svc.made + 1,
                !.made = svc.made + 1,
                !.open = svc.open \cup {svc.made + 1},
                !.listeners = OwnListeners,
                !.returned = svc.made + 1]

\* connect()
Connect(svc) ==
    IF svc.socket = 0
    THEN [svc EXCEPT !.socket = svc.made + 1,
                     !.made = svc.made + 1,
                     !.open = svc.open \cup {svc.made + 1},
                     !.listeners = OwnListeners,
                     !.returned = svc.made + 1]
    ELSE [svc EXCEPT !.returned = svc.socket]

ServiceConnect ==
    /\ bestEffort.made < MaxSockets
    /\ bestEffort' = Connect(bestEffort)
    /\ ServiceUnchanged

\* disconnect()
ServiceDisconnect ==
    /\ bestEffort' = IF bestEffort.socket # 0
                      THEN [bestEffort EXCEPT !.open = @ \ {bestEffort.socket},
                                              !.socket = 0,
                                              !.listeners = {},
                                              !.returned = 0]
                      ELSE [bestEffort EXCEPT !.returned = 0]
    /\ ServiceUnchanged

\* joinGame, submitAnswer, endGame, ...: this.socket?.emit(event, ...)
ServiceEmit ==
    /\ \E event \in EmitEvents :
          bestEffort' = IF bestEffort.socket # 0
                        THEN [bestEffort EXCEPT
                                !.emitted = @ \cup {<<bestEffort.socket, event>>}]
                        ELSE bestEffort
    /\ ServiceUnchanged

\* onPlayerJoined, onGameEnded, onError, ...: this.socket?.on(event, ...)
ServiceOn ==
    /\ \E event \in ListenEvents :
          bestEffort' = IF bestEffort.socket # 0
                        THEN [bestEffort EXCEPT !.listeners = @ \cup {event}]
                        ELSE bestEffort
    /\ ServiceUnchanged

\* offPlayerJoined, ...: this.socket?.off(event)
ServiceOff ==
    /\ \E event \in ListenEvents :
          bestEffort' = IF bestEffort.socket # 0
                        THEN [bestEffort EXCEPT !.listeners = @ \ {event}]
                        ELSE bestEffort
    /\ ServiceUnchanged

\* removeAllListeners(): this.socket?.removeAllListeners()
ServiceRemoveAllListeners ==
    /\ bestEffort' = IF bestEffort.socket # 0
                      THEN [bestEffort EXCEPT !.listeners = {}]
                      ELSE bestEffort
    /\ ServiceUnchanged

ServiceInit ==
    /\ gameState = "home"
    /\ gameSession = NoSession
    /\ isConnected \in BOOLEAN
    /\ localStorage = [questions |-> << >>, started |-> FALSE, questionCount |-> 0]
    /\ gp = GamePlayState
    /\ mounted = FALSE
    /\ expired = FALSE
    /\ timers = {}
    /\ scoreCalls = << >>
    /\ mounts = 0
    /\ lobby = GameLobbyState
    /\ channels = {}
    /\ host = [started |-> FALSE, questions |-> << >>]
    /\ quickPoll = -1
    /\ join = JoinGameState
    /\ bestEffort = SocketServiceState
    /\ hostGame = HostGameState
    /\ results = NoResults

ServiceNext ==
    \/ ServiceConnect
    \/ ServiceDisconnect
    \/ ServiceEmit
    \/ ServiceOn
    \/ ServiceOff
    \/ ServiceRemoveAllListeners

ServiceSpec == ServiceInit /\ [][ServiceNext]_vars

\* C35: whatever the sequence of calls, at most one socket is open, and it
\* is the one the service holds; connect() with a socket returns that
\* socket and makes none; disconnect() leaves no socket; and a call to
\* emit or to register or remove a listener without a socket changes
\* nothing.
C35_AtMostOneSocket ==
    /\ [](/\ Cardinality(bestEffort.open) <= 1
          /\ bestEffort.open = IF bestEffort.socket = 0 THEN {}
                               ELSE {bestEffort.socket})
    /\ [][(ServiceConnect /\ bestEffort.socket # 0)
             => /\ bestEffort'.socket = bestEffort.socket
                /\ bestEffort'.returned = bestEffort.socket
                /\ bestEffort'.made = bestEffort.made
                /\ bestEffort'.listeners = bestEffort.listeners]_vars
    /\ [][ServiceDisconnect
             => (bestEffort'.socket = 0 /\ bestEffort'.open = {})]_vars
    /\ [][((ServiceEmit \/ ServiceOn \/ ServiceOff \/ ServiceRemoveAllListeners)
              /\ bestEffort.socket = 0)
             => bestEffort' = bestEffort]_vars

\* the service holds its second socket, which a repeated connect()
\* returned again, after the first was disconnected with events emitted
C35_Witness ==
    /\ bestEffort.made = 2 /\ bestEffort.socket = 2
    /\ bestEffort.returned = 2 /\ bestEffort.open = {2}
    /\ \E event \in EmitEvents : <<1, event>> \in bestEffort.emitted
    /\ bestEffort.listeners \cap ListenEvents # {}

(***************************************************************************)
(* data/questions.ts: the three category arrays and getRandomQuestions.    *)
(* The module's arrays are state here, so that a call that reorders one of *)
(* them is visible; the host variable holds the module and the last call.  *)
(***************************************************************************)
MaxCount == 4
MaxCalls == 2

techQuestions == SubSeq(Pool, 1, 2)
generalQuestions == SubSeq(Pool, 3, 3)
partyQuestions ==
    << [id |-> 4, correctAnswer |-> 1, difficulty |-> 1, timeLimit |-> TimeLimit] >>

\* the category argument: omitted, one of the three categories, or a value
\* outside the union type that reaches the switch's default branch
CategoryArguments == {"undefined", "tech", "general", "party", "other"}

QuestionsModule ==
    [techQuestions |-> techQuestions,
     generalQuestions |-> generalQuestions,
     partyQuestions |-> partyQuestions]

getAllQuestions(m) == m.techQuestions \o m.generalQuestions \o m.partyQuestions

getQuestionsByCategory(m, category) ==
    CASE category = "tech" -> m.techQuestions
      [] category = "general" -> m.generalQuestions
      [] category = "party" -> m.partyQuestions
      [] OTHER -> << >>

\* [...pool].sort(() => Math.random() - 0.5): a new array holding the pool's
\* elements in any order
Shuffles(pool) ==
    { [i \in 1..Len(pool) |-> pool[p[i]]] :
        p \in { f \in [1..Len(pool) -> 1..Len(pool)] :
                  \A i, j \in 1..Len(pool) : i # j => f[i] # f[j] } }

MathMin(a, b) == IF a < b THEN a ELSE b

\* Array.prototype.slice(0, end): a negative end counts from the array's end
Slice(array, end) ==
    LET len == Len(array)
        final == IF end < 0
                 THEN (IF len + end < 0 THEN 0 ELSE len + end)
                 ELSE MathMin(end, len)
    IN  SubSeq(array, 1, final)

\* getRandomQuestions that sorts the category's own array
GetRandomQuestionsInPlace(m, count, category) ==
    LET pool == IF category # "undefined"
                THEN getQuestionsByCategory(m, category)
                ELSE getAllQuestions(m)
    IN  { [questions |-> Slice(shuffled, MathMin(count, Len(shuffled))),
           module |-> CASE category = "tech" -> [m EXCEPT !.techQuestions = shuffled]
                        [] category = "general" -> [m EXCEPT !.generalQuestions = shuffled]
                        [] category = "party" -> [m EXCEPT !.partyQuestions = shuffled]
                        [] OTHER -> m] : shuffled \in Shuffles(pool) }

\* the outcomes of one call: the returned list and the module after the call
GetRandomQuestions(m, count, category) ==
    LET pool == IF category # "undefined"
                THEN getQuestionsByCategory(m, category)
                ELSE getAllQuestions(m)
    IN  { [questions |-> Slice(shuffled, MathMin(count, Len(shuffled))),
           module |-> m] : shuffled \in Shuffles(pool) }

QuestionsUnchanged ==
    UNCHANGED <<gameState, gameSession, isConnected, localStorage, mounted, gp,
                expired, timers, scoreCalls, mounts, lobby, channels,
                quickPoll, join, bestEffort, hostGame, results>>

GetRandomQuestionsCall ==
    /\ host.calls < MaxCalls
    /\ \E count \in 0..MaxCount, category \in CategoryArguments :
         \E outcome \in GetRandomQuestions(host.module, count, category) :
           host' = [module |-> outcome.module,
                    count |-> count,
                    category |-> category,
                    questions |-> outcome.questions,
                    calls |-> host.calls + 1]
    /\ QuestionsUnchanged

QuestionsInit ==
    /\ gameState = "home"
    /\ gameSession = NoSession
    /\ isConnected \in BOOLEAN
    /\ localStorage = [questions |-> << >>, started |-> FALSE, questionCount |-> 0]
    /\ gp = GamePlayState
    /\ mounted = FALSE
    /\ expired = FALSE
    /\ timers = {}
    /\ scoreCalls = << >>
    /\ mounts = 0
    /\ lobby = GameLobbyState
    /\ channels = {}
    /\ host = [module |-> QuestionsModule, count |-> 0, category |-> "undefined",
               questions |-> << >>, calls |-> 0]
    /\ quickPoll = -1
    /\ join = JoinGameState
    /\ bestEffort = BestEffortState
    /\ hostGame = HostGameState
    /\ results = NoResults

QuestionsNext == GetRandomQuestionsCall

QuestionsSpec == QuestionsInit /\ [][QuestionsNext]_vars

\* C36: after any call getRandomQuestions(count, category?) the returned list
\* has exactly min(count, size of the selected pool) questions, each of them
\* is a question of the selected pool, no question occurs twice in it, and
\* the three category arrays are what they were before the call.
C36_RandomQuestionsFromPool ==
    host.calls > 0 =>
        LET selected == IF host.category = "undefined"
                        THEN techQuestions \o generalQuestions \o partyQuestions
                        ELSE getQuestionsByCategory(QuestionsModule, host.category)
            n == Len(host.questions)
        IN  /\ n = MathMin(host.count, Len(selected))
            /\ \A i \in 1..n : \E k \in 1..Len(selected) : host.questions[i] = selected[k]
            /\ \A i, j \in 1..n : i # j => host.questions[i] # host.questions[j]
            /\ host.module = QuestionsModule

\* a second call asks the two-question tech pool for more than it holds and
\* gets both questions in the other order
C36_Witness ==
    /\ host.calls = 2
    /\ host.category = "tech"
    /\ host.count = MaxCount
    /\ host.questions = << techQuestions[2], techQuestions[1] >>
    /\ host.module.techQuestions = techQuestions

====
